---------------------------- MODULE Spec2Model ----------------------------
(***************************************************************************)
(* A model of ptcow, a PxTone song renderer.                               *)
(*                                                                         *)
(*   Part I   the varint codec of src/src/io.rs (Reader, next_varint,      *)
(*            varint_to_int, int_to_varint, write_varint).                 *)
(*   Part II  the playback engine of src/src/herd/moo.rs (moo_prepare,     *)
(*            Herd::moo, next_sample, do_event, do_on_event) with the      *)
(*            unit, delay and overdrive code it calls.                     *)
(*   Part III the file format of src/src/herd/io.rs (read_song,            *)
(*            serialize_project) with the master, event, effect and unit  *)
(*            blocks it reads and writes.                                  *)
(*                                                                         *)
(* Numbers that the program keeps in f32/f64 are modelled as exact         *)
(* rationals <<num, den>>; the inputs the specifications draw are chosen   *)
(* so that every float operation the program performs on them is exact     *)
(* (small integers and dyadic fractions), and so the rational is the       *)
(* float.                                                                  *)
(***************************************************************************)
EXTENDS Integers, Sequences, FiniteSets, TLC

VARIABLES
    \* ---- Part I: codec ----
    rd,        \* io.rs Reader { data, cur }
    vres,      \* the Result of the last Reader::next_varint call
    out,       \* the Vec<u8> that write_varint appends to
    written,   \* the numbers handed to write_varint so far, in order
    readback,  \* the numbers next_varint has returned from the reader
    tv,        \* test_varint_equiv: the loop body's i, v and n
    \* ---- Part II: playback ----
    song,      \* herd.rs Song { master, events }
    ins,       \* herd.rs MooInstructions { out_sample_rate, voices, samples_per_tick }
    herd,      \* herd.rs Herd
    pc,        \* where the caller is: "loaded", "idle", "moo" (inside Herd::moo), "panic"
    call,      \* the running or last Herd::moo call: buf length in frames, advance, frames written
    ret,       \* what the last Herd::moo call returned: "none", "true", "false"
    mix,       \* the last frame next_sample wrote: out, and the group accumulators it summed
    pass,      \* what was observed since moo_prepare: the events dispatched in this pass
               \* over the list, the frames written, whether all were 0, whether a call paused
    \* ---- Part III: the file format ----
    load       \* a read_song call and the serialize_project call after it: the bytes
               \* given, the Result returned, the bytes written

codecVars == <<rd, vres, out, written, readback, tv>>

playVars == <<song, ins, herd, pc, call, ret, mix, pass>>

fileVars == <<load>>

vars == <<rd, vres, out, written, readback, tv,
          song, ins, herd, pc, call, ret, mix, pass, load>>

-----------------------------------------------------------------------------
(* Bounds of the model *)

\* Longest byte stream handed to a Reader.
MaxDataLen == 6
\* Most numbers written to one output buffer by write_varint.
MaxWrites == 2
\* Most events in a song.
MaxEvents == 3
\* The buffer the empty song of 88200 frames is rendered into, in stereo frames.
BigBuf == 4096
\* Most frames rendered after one moo_prepare; a looping song never ends.
MaxFrames == 10

-----------------------------------------------------------------------------
(* Fixed-width integer helpers *)

RECURSIVE Pow2(_)
Pow2(k) == IF k = 0 THEN 1 ELSE 2 * Pow2(k - 1)

\* Rust's `&` on unsigned integers.
RECURSIVE BitAnd(_, _)
BitAnd(a, b) ==
    IF a = 0 \/ b = 0 THEN 0
    ELSE (a % 2) * (b % 2) + 2 * BitAnd(a \div 2, b \div 2)

\* Rust's `|` on unsigned integers.
RECURSIVE BitOr(_, _)
BitOr(a, b) ==
    IF a = 0 THEN b
    ELSE IF b = 0 THEN a
    ELSE (IF a % 2 = 1 \/ b % 2 = 1 THEN 1 ELSE 0) + 2 * BitOr(a \div 2, b \div 2)

\* Rust's `<<` on a u8: the bits shifted out of the byte are lost.
Shl8(x, k) == (x * Pow2(k)) % 256

\* Rust's `>>` on an unsigned integer.
Shr(x, k) == x \div Pow2(k)

\* A u32 is the pair <<high half, low half>> of its 16-bit halves: the
\* model checker's integers end at 2^31 - 1.
U32(hi, lo) == <<hi, lo>>

\* `<` on u32.
U32Lt(n, m) == n[1] < m[1] \/ (n[1] = m[1] /\ n[2] < m[2])

\* u32::to_le_bytes: the four bytes, least significant first (1-based here).
ToLeBytes(num) ==
    <<num[2] % 256, num[2] \div 256, num[1] % 256, num[1] \div 256>>

\* u32::from_le_bytes.
FromLeBytes(b) == U32(b[3] + 256 * b[4], b[1] + 256 * b[2])

-----------------------------------------------------------------------------
(* Part I: the varint codec *)

\* Option::None of varint_to_int.
None == <<-1, -1>>

\* fn varint_to_int(buf: &VarintBuf) -> Option<u32>
varint_to_int(buf) ==
    LET M(i) == BitAnd(buf[i], 127)
    IN  CASE Len(buf) = 1 ->
               FromLeBytes(<<M(1), 0, 0, 0>>)
          [] Len(buf) = 2 ->
               FromLeBytes(<<BitOr(M(1), Shl8(buf[2], 7)),
                             Shr(M(2), 1), 0, 0>>)
          [] Len(buf) = 3 ->
               FromLeBytes(<<BitOr(M(1), Shl8(buf[2], 7)),
                             BitOr(Shr(M(2), 1), Shl8(buf[3], 6)),
                             Shr(M(3), 2), 0>>)
          [] Len(buf) = 4 ->
               FromLeBytes(<<BitOr(M(1), Shl8(buf[2], 7)),
                             BitOr(Shr(M(2), 1), Shl8(buf[3], 6)),
                             BitOr(Shr(M(3), 2), Shl8(buf[4], 5)),
                             Shr(M(4), 3)>>)
          [] Len(buf) = 5 ->
               FromLeBytes(<<BitOr(M(1), Shl8(buf[2], 7)),
                             BitOr(Shr(M(2), 1), Shl8(buf[3], 6)),
                             BitOr(Shr(M(3), 2), Shl8(buf[4], 5)),
                             BitOr(Shr(M(4), 3), Shl8(buf[5], 4))>>)
          [] OTHER -> None

\* A plausible slip in int_to_varint: the two-byte form used up to 0x8000,
\* one bit more than its 14 data bits hold.
int_to_varint_wide2(num) ==
    LET a == ToLeBytes(num)
        lo == BitOr(BitAnd(a[1], 127), 128)
        b1 == BitOr(Shr(a[1], 7), BitAnd(Shl8(a[2], 1), 127))
        b2 == BitOr(Shr(a[2], 6), BitAnd(Shl8(a[3], 2), 127))
        b3 == BitOr(Shr(a[3], 5), BitAnd(Shl8(a[4], 3), 127))
    IN  IF U32Lt(num, U32(0, 128)) THEN <<a[1]>>
        ELSE IF U32Lt(num, U32(0, 32768)) THEN <<lo, b1>>
        ELSE IF U32Lt(num, U32(32, 0)) THEN <<lo, BitOr(b1, 128), b2>>
        ELSE IF U32Lt(num, U32(4096, 0)) THEN <<lo, BitOr(b1, 128), BitOr(b2, 128), b3>>
        ELSE <<lo, BitOr(b1, 128), BitOr(b2, 128), BitOr(b3, 128), Shr(a[4], 4)>>

\* A plausible slip in int_to_varint: the three-byte form without the
\* continuation bit on its second byte.
int_to_varint_nocont(num) ==
    LET a == ToLeBytes(num)
        lo == BitOr(BitAnd(a[1], 127), 128)
        b1 == BitOr(Shr(a[1], 7), BitAnd(Shl8(a[2], 1), 127))
        b2 == BitOr(Shr(a[2], 6), BitAnd(Shl8(a[3], 2), 127))
        b3 == BitOr(Shr(a[3], 5), BitAnd(Shl8(a[4], 3), 127))
    IN  IF U32Lt(num, U32(0, 128)) THEN <<a[1]>>
        ELSE IF U32Lt(num, U32(0, 16384)) THEN <<lo, b1>>
        ELSE IF U32Lt(num, U32(32, 0)) THEN <<lo, b1, b2>>
        ELSE IF U32Lt(num, U32(4096, 0)) THEN <<lo, BitOr(b1, 128), BitOr(b2, 128), b3>>
        ELSE <<lo, BitOr(b1, 128), BitOr(b2, 128), BitOr(b3, 128), Shr(a[4], 4)>>

\* fn int_to_varint(num: u32) -> ArrayVec<u8, 5>
int_to_varint(num) ==
    LET a == ToLeBytes(num)
        lo == BitOr(BitAnd(a[1], 127), 128)
        b1 == BitOr(Shr(a[1], 7), BitAnd(Shl8(a[2], 1), 127))
        b2 == BitOr(Shr(a[2], 6), BitAnd(Shl8(a[3], 2), 127))
        b3 == BitOr(Shr(a[3], 5), BitAnd(Shl8(a[4], 3), 127))
    IN  IF U32Lt(num, U32(0, 128)) THEN <<a[1]>>
        ELSE IF U32Lt(num, U32(0, 16384)) THEN <<lo, b1>>
        ELSE IF U32Lt(num, U32(32, 0)) THEN <<lo, BitOr(b1, 128), b2>>
        ELSE IF U32Lt(num, U32(4096, 0)) THEN <<lo, BitOr(b1, 128), BitOr(b2, 128), b3>>
        ELSE <<lo, BitOr(b1, 128), BitOr(b2, 128), BitOr(b3, 128), Shr(a[4], 4)>>

\* Reader::next::<u8>: Err(ReadError) when no byte is left, else the byte
\* at `cur`, and `cur` moves on by one.
ReaderHasByte(r) == r.cur + 1 <= Len(r.data)

\* The loop of Reader::next_varint from the state (r, a, count): the result
\* is [ok, val, cur, buf], ok = FALSE standing for Err(ReadError).
RECURSIVE next_varint_loop(_, _, _)
next_varint_loop(r, a, count) ==
    IF count < 5
    THEN IF ~ReaderHasByte(r)
         THEN [ok |-> FALSE, val |-> None, cur |-> r.cur, buf |-> a]
         ELSE LET byte == r.data[r.cur + 1]
                  a2   == Append(a, byte)
                  r2   == [r EXCEPT !.cur = r.cur + 1]
              IN  IF BitAnd(a2[count + 1], 128) = 0
                  THEN [ok  |-> varint_to_int(a2) # None,
                        val |-> varint_to_int(a2),
                        cur |-> r2.cur, buf |-> a2]
                  ELSE next_varint_loop(r2, a2, count + 1)
    ELSE [ok  |-> varint_to_int(a) # None,
          val |-> varint_to_int(a),
          cur |-> r.cur, buf |-> a]

\* A plausible slip in next_varint: the continuation bit tested with the
\* wrong mask, so that a byte below 0x80 does not end the value.
next_varint_badmask(r) ==
    LET RECURSIVE L(_, _, _)
        L(rr, a, count) ==
            IF count < 5
            THEN IF ~ReaderHasByte(rr)
                 THEN [ok |-> FALSE, val |-> None, cur |-> rr.cur, buf |-> a]
                 ELSE LET a2 == Append(a, rr.data[rr.cur + 1])
                          r2 == [rr EXCEPT !.cur = rr.cur + 1]
                      IN  IF BitAnd(a2[count + 1], 64) = 0
                          THEN [ok  |-> varint_to_int(a2) # None,
                                val |-> varint_to_int(a2),
                                cur |-> r2.cur, buf |-> a2]
                          ELSE L(r2, a2, count + 1)
            ELSE [ok  |-> varint_to_int(a) # None,
                  val |-> varint_to_int(a),
                  cur |-> rr.cur, buf |-> a]
    IN  L(r, <<>>, 0)

\* pub fn next_varint(&mut self) -> Result<u32, ReadError>
next_varint(r) == next_varint_loop(r, <<>>, 0)

-----------------------------------------------------------------------------
(* Inputs of the codec specifications *)

\* Byte values the streams are made of: both values of the continuation
\* bit, all-zero and all-one data bits, a fifth-byte value within 0x0F (1)
\* and one above it (127).
ByteVals == {0, 1, 127, 128, 255}

\* Bytes a u32 is assembled from, least significant first.
NumBytes == {0, 1, 127, 128, 255}

\* The u32 values next to the thresholds of int_to_varint.
BoundaryNums ==
    {U32(0, 0), U32(0, 127), U32(0, 128), U32(0, 16383), U32(0, 16384),
     U32(31, 65535), U32(32, 0), U32(4095, 65535), U32(4096, 0),
     U32(65535, 65535)}

\* The numbers that follow the first one in an output buffer.
FollowNums == {U32(0, 0), U32(0, 128), U32(65535, 65535)}

NumSet ==
    BoundaryNums \cup
    {FromLeBytes(<<b1, b2, b3, b4>>) : b1 \in NumBytes, b2 \in NumBytes,
                                       b3 \in NumBytes, b4 \in NumBytes}

ByteSeqs == UNION {[1..n -> ByteVals] : n \in 0..MaxDataLen}

NoResult == [ok |-> FALSE, val |-> None, cur |-> 0, buf |-> <<>>, called |-> FALSE]
NoTest == [i |-> None, v |-> <<>>, n |-> None]

\* The playback variables before any song is loaded.
NoSong == <<>>
NoCall == [buflen |-> 0, advance |-> TRUE, written |-> 0]
NoMix == [out |-> <<0, 0>>, groups |-> <<>>]
NoPass == [log |-> <<>>, last_smp |-> -1, frames |-> 0, silent |-> TRUE, paused |-> FALSE]

\* The file variable when no file is read or written.
NoLoad == [stage |-> "none"]

-----------------------------------------------------------------------------
(* Actions of the codec *)

\* One call of Reader::next_varint on the reader.
NextVarint ==
    /\ ~(vres.called /\ ~vres.ok)
    /\ rd.cur < Len(rd.data)
    /\ LET res == next_varint(rd)
       IN  /\ vres' = [ok |-> res.ok, val |-> res.val, cur |-> rd.cur,
                       buf |-> res.buf, called |-> TRUE]
           /\ rd' = [rd EXCEPT !.cur = res.cur]
           /\ readback' = IF res.ok THEN Append(readback, res.val) ELSE readback
    /\ UNCHANGED <<out, written, tv>>
    /\ UNCHANGED playVars
    /\ UNCHANGED fileVars

\* pub fn write_varint(num: u32, out: &mut Vec<u8>)
WriteVarint(num) ==
    /\ Len(written) < MaxWrites
    /\ Len(rd.data) = 0
    /\ tv = NoTest
    /\ out' = out \o int_to_varint(num)
    /\ written' = Append(written, num)
    /\ UNCHANGED <<rd, vres, readback, tv>>
    /\ UNCHANGED playVars
    /\ UNCHANGED fileVars

\* A Reader is made over the bytes written so far (Reader { data, cur: 0 }).
OpenReader ==
    /\ Len(written) > 0
    /\ Len(rd.data) = 0
    /\ rd' = [data |-> out, cur |-> 0]
    /\ UNCHANGED <<vres, out, written, readback, tv>>
    /\ UNCHANGED playVars
    /\ UNCHANGED fileVars

\* The body of the loops of test_varint_equiv for one i.
TestVarintEquiv(i) ==
    /\ tv = NoTest
    /\ written = <<>>
    /\ Len(rd.data) = 0
    /\ LET v == int_to_varint(i)
       IN  tv' = [i |-> i, v |-> v, n |-> varint_to_int(v)]
    /\ UNCHANGED <<rd, vres, out, written, readback>>
    /\ UNCHANGED playVars
    /\ UNCHANGED fileVars

-----------------------------------------------------------------------------
(* SpecCodec: numbers are encoded, and the bytes written are read back *)

InitCodec ==
    /\ rd = [data |-> <<>>, cur |-> 0]
    /\ vres = NoResult
    /\ out = <<>>
    /\ written = <<>>
    /\ readback = <<>>
    /\ tv = NoTest
    /\ song = NoSong
    /\ ins = NoSong
    /\ herd = NoSong
    /\ pc = "none"
    /\ call = NoCall
    /\ ret = "none"
    /\ mix = NoMix
    /\ pass = NoPass
    /\ load = NoLoad

NextCodec ==
    \/ \E num \in (IF written = <<>> THEN NumSet ELSE FollowNums) : WriteVarint(num)
    \/ OpenReader
    \/ NextVarint
    \/ \E i \in NumSet : TestVarintEquiv(i)

SpecCodec == InitCodec /\ [][NextCodec]_vars

(* SpecReader: a Reader over an arbitrary byte stream is read to its end *)

InitReader ==
    /\ rd \in {[data |-> d, cur |-> 0] : d \in ByteSeqs}
    /\ vres = NoResult
    /\ out = <<>>
    /\ written = <<>>
    /\ readback = <<>>
    /\ tv = NoTest
    /\ song = NoSong
    /\ ins = NoSong
    /\ herd = NoSong
    /\ pc = "none"
    /\ call = NoCall
    /\ ret = "none"
    /\ mix = NoMix
    /\ pass = NoPass
    /\ load = NoLoad

NextReader == NextVarint

SpecReader == InitReader /\ [][NextReader]_vars

-----------------------------------------------------------------------------
(* Claims about the codec *)

\* Bit k of a u32, and the j-th group of seven bits (j = 1 the lowest);
\* bits from 32 up are 0.
U32Bit(n, k) ==
    IF k < 16 THEN (n[2] \div Pow2(k)) % 2
    ELSE IF k < 32 THEN (n[1] \div Pow2(k - 16)) % 2
    ELSE 0

Septet(n, j) ==
    LET base == 7 * (j - 1)
    IN  U32Bit(n, base) + 2 * U32Bit(n, base + 1) + 4 * U32Bit(n, base + 2)
        + 8 * U32Bit(n, base + 3) + 16 * U32Bit(n, base + 4)
        + 32 * U32Bit(n, base + 5) + 64 * U32Bit(n, base + 6)

\* The least k in 1..5 with n < 2^(7k), 5 when there is none.
ShortestLen(n) ==
    IF U32Lt(n, U32(0, 128)) THEN 1
    ELSE IF U32Lt(n, U32(0, 16384)) THEN 2
    ELSE IF U32Lt(n, U32(32, 0)) THEN 3
    ELSE IF U32Lt(n, U32(4096, 0)) THEN 4
    ELSE 5

\* A byte sequence in shortest form: no zero byte ends a sequence of two
\* or more, and a fifth byte holds only the four bits 28..31.
Canonical(b) ==
    /\ Len(b) = 1 \/ b[Len(b)] # 0
    /\ Len(b) = 5 => b[5] <= 15

\* C7: decoding the bytes that encoding n produced yields n, both in the
\* body of test_varint_equiv (int_to_varint then varint_to_int) and through
\* a Reader (write_varint then next_varint): the values read back are the
\* values written, in order, no read fails, and once the reader is at the
\* end of the bytes every value written has been read back.
C7_RoundTrip ==
    /\ tv # NoTest => tv.n = tv.i
    /\ vres.called => vres.ok
    /\ Len(readback) <= Len(written)
    /\ \A k \in 1..Len(readback) : readback[k] = written[k]
    /\ (Len(rd.data) > 0 /\ rd.cur = Len(rd.data)) => readback = written

\* C7 witness: two numbers were written and read back whole, the first of
\* them at least 2^31, and the test body has such a number too.
C7_Witness ==
    /\ Len(written) = 2
    /\ readback = written
    /\ written[1][1] >= 32768
    /\ rd.cur = Len(rd.data)

\* C8: the encoding of n is the shortest little-endian form with seven data
\* bits a byte: it has ShortestLen(n) bytes, byte j carries bits 7(j-1) to
\* 7j-1 of n, every byte but the last has the high bit set and the last has
\* it clear; and the five boundary encodings of scenario S5 are as listed.
C8_Canonical ==
    tv # NoTest =>
        /\ Len(tv.v) = ShortestLen(tv.i)
        /\ \A j \in 1..Len(tv.v) :
              /\ tv.v[j] % 128 = Septet(tv.i, j)
              /\ (tv.v[j] >= 128) <=> (j < Len(tv.v))
        /\ tv.i = U32(0, 127) => tv.v = <<127>>
        /\ tv.i = U32(0, 128) => tv.v = <<128, 1>>
        /\ tv.i = U32(0, 16383) => tv.v = <<255, 127>>
        /\ tv.i = U32(0, 16384) => tv.v = <<128, 128, 1>>
        /\ tv.i = U32(65535, 65535) => tv.v = <<255, 255, 255, 255, 15>>

\* C8 witness: 0xFFFFFFFF has been encoded, to five bytes.
C8_Witness ==
    /\ tv.i = U32(65535, 65535)
    /\ tv.v = <<255, 255, 255, 255, 15>>

\* C9 as stated: every byte sequence that next_varint accepts as one value
\* is reproduced by encoding the value it decoded to.
C9_ReencodeAll ==
    (vres.called /\ vres.ok) => int_to_varint(vres.val) = vres.buf

\* C9 amended: for an accepted byte sequence b, encode(decode(b)) = b
\* exactly when b is in shortest form (no trailing zero byte, a fifth byte
\* of at most 0x0F); for every accepted b, encode(decode(b)) decodes to the
\* same value as b.
C9_ReencodeCanonical ==
    (vres.called /\ vres.ok) =>
        /\ Canonical(vres.buf) <=> (int_to_varint(vres.val) = vres.buf)
        /\ varint_to_int(int_to_varint(vres.val)) = vres.val

\* C9 witness: a five-byte sequence in shortest form has been accepted.
C9_Witness ==
    /\ vres.called /\ vres.ok
    /\ Len(vres.buf) = 5
    /\ Canonical(vres.buf)
    /\ int_to_varint(vres.val) = vres.buf

\* C10: next_varint reads bytes until one has the continuation bit clear,
\* at most five, and a value whose fifth byte still has the continuation
\* bit set is refused with an error.
C10_LongVarintRefused ==
    vres.called =>
        /\ Len(vres.buf) <= 5
        /\ \A j \in 1..(Len(vres.buf) - 1) : vres.buf[j] >= 128
        /\ (Len(vres.buf) = 5 /\ vres.buf[5] >= 128) => ~vres.ok


-----------------------------------------------------------------------------
(* Part II: the playback engine *)

(* Arithmetic of the program's number types *)

Abs(a) == IF a < 0 THEN -a ELSE a

\* Rust's `/` on signed integers rounds toward zero.
TruncDiv(a, b) ==
    LET q == Abs(a) \div Abs(b)
    IN  IF (a < 0) # (b < 0) THEN -q ELSE q

\* u32::div_ceil
DivCeil(a, b) == (a + b - 1) \div b

Min(a, b) == IF a < b THEN a ELSE b
Max(a, b) == IF a > b THEN a ELSE b

\* i32::clamp
Clamp(x, lo, hi) == IF x < lo THEN lo ELSE IF x > hi THEN hi ELSE x

RECURSIVE Gcd(_, _)
Gcd(a, b) == IF b = 0 THEN a ELSE Gcd(b, a % b)

\* A float is the rational <<num, den>> in lowest terms, den > 0.
Rat(n, d) ==
    LET g == Gcd(Abs(n), Abs(d))
        sg == IF d < 0 THEN -1 ELSE 1
    IN  <<sg * (n \div g), sg * (d \div g)>>

RInt(i) == <<i, 1>>
RMul(x, y) == Rat(x[1] * y[1], x[2] * y[2])
RDiv(x, y) == Rat(x[1] * y[2], x[2] * y[1])
RAdd(x, y) == Rat(x[1] * y[2] + y[1] * x[2], x[2] * y[2])
RSub(x, y) == Rat(x[1] * y[2] - y[1] * x[2], x[2] * y[2])
RGeq(x, y) == x[1] * y[2] >= y[1] * x[2]

\* `as i32` on a float in range: the fraction is dropped.
RTrunc(x) == TruncDiv(x[1], x[2])

\* `as u32` / `as usize` on a float: as above, and negatives saturate to 0.
RTruncU(x) == Max(RTrunc(x), 0)

\* `as u8` on an i32 keeps the low eight bits.
AsU8(x) == x % 256

-----------------------------------------------------------------------------
(* Constants of the program *)

NATIVE_SAMPLE_RATE == 44100
DEFAULT_KEY == 24576
DEFAULT_BASICKEY == 17664
DEFAULT_VOLUME == 104
DEFAULT_VELOCITY == 104
DEFAULT_TUNING == RInt(1)
\* unit.rs: MAX_CHANNEL, PanTimeBuf::LEN and GroupSamples::LEN
MAX_CHANNEL == 2
PanTimeBufLen == 64
GroupSamplesLen == 7
\* pulse_frequency.rs: KEY_PER_OCTAVE * FREQUENCY_PER_KEY, and TABLE_SIZE
OctaveSteps == 192
TABLE_SIZE == 3072
I16_MIN == -32768
I16_MAX == 32767

Zeros(n) == [i \in 1..n |-> 0]

-----------------------------------------------------------------------------
(* timing.rs *)

\* pub fn tick_to_meas(tick: Tick, timing: Timing) -> Meas
tick_to_meas(tick, timing) ==
    DivCeil(DivCeil(tick, timing.ticks_per_beat), timing.beats_per_meas)

\* pub fn meas_to_tick(meas: Meas, timing: Timing) -> Tick
meas_to_tick(meas, timing) == meas * timing.ticks_per_beat * timing.beats_per_meas

\* pub fn samples_per_tick(out_sample_rate, timing) -> SamplesPerTick
samples_per_tick(out_sample_rate, timing) ==
    RDiv(RInt(60 * out_sample_rate), RMul(timing.bpm, RInt(timing.ticks_per_beat)))

\* pub fn tick_to_sample(tick: Tick, samples_per_tick) -> SampleT
tick_to_sample(tick, spt) == RTruncU(RMul(RInt(tick), spt))

\* A variant of meas_to_sample that takes a measure for one beat.
meas_to_sample_onebeat(meas, spt, timing) ==
    RTruncU(RMul(RInt(meas * timing.ticks_per_beat), spt))

\* pub fn meas_to_sample(meas: Meas, samples_per_tick, timing) -> SampleT
meas_to_sample(meas, spt, timing) ==
    RTruncU(RMul(RInt(meas * timing.beats_per_meas * timing.ticks_per_beat), spt))

-----------------------------------------------------------------------------
(* master.rs, event.rs and herd.rs: the length of a song *)

\* const fn event_duration(payload: EventPayload) -> Option<u32>
event_duration(eve) == IF eve.kind \in {"On", "Portament"} THEN eve.value ELSE 0

\* EveList::get_max_tick
RECURSIVE get_max_tick_from(_, _, _)
get_max_tick_from(eves, i, max_clock) ==
    IF i > Len(eves) THEN max_clock
    ELSE get_max_tick_from(eves, i + 1,
                           Max(max_clock, eves[i].tick + event_duration(eves[i])))

get_max_tick(eves) == get_max_tick_from(eves, 1, 0)

\* LoopPoints::from_ticks; last = 0 is None (NonZeroMeas::new)
from_ticks(repeat, last, timing) ==
    [repeat |-> tick_to_meas(repeat, timing), last |-> tick_to_meas(last, timing)]

\* Master::get_last_tick
get_last_tick(master) == meas_to_tick(master.loop_points.last, master.timing)

\* Master::get_play_meas, which moo_prepare calls as end_meas
get_play_meas(master) ==
    IF master.loop_points.last = 0 THEN master.meas_num ELSE master.loop_points.last

\* A plausible slip in adjust_meas_num: the repeat point compared with `>`,
\* so that a repeat at meas_num is kept.
adjust_meas_num_gt(master, tick) ==
    LET meas_num == Max(master.meas_num, tick_to_meas(tick, master.timing))
        lp == master.loop_points
        repeat == IF lp.repeat > meas_num THEN 0 ELSE lp.repeat
        last == IF lp.last # 0 /\ lp.last > meas_num THEN meas_num ELSE lp.last
    IN  [master EXCEPT !.meas_num = meas_num,
                       !.loop_points = [repeat |-> repeat, last |-> last]]

\* Master::adjust_meas_num
adjust_meas_num(master, tick) ==
    LET meas_num == Max(master.meas_num, tick_to_meas(tick, master.timing))
        lp == master.loop_points
        repeat == IF lp.repeat >= meas_num THEN 0 ELSE lp.repeat
        last == IF lp.last # 0 /\ lp.last > meas_num THEN meas_num ELSE lp.last
    IN  [master EXCEPT !.meas_num = meas_num,
                       !.loop_points = [repeat |-> repeat, last |-> last]]

\* Song::recalculate_length
recalculate_length(sng) ==
    [sng EXCEPT !.master =
        adjust_meas_num(sng.master, Max(get_last_tick(sng.master), get_max_tick(sng.events)))]

-----------------------------------------------------------------------------
(* pulse_frequency.rs *)

\* oct_table[k] = 2^(k - 8)
OctTable(k) == IF k >= 8 THEN RInt(Pow2(k - 8)) ELSE Rat(1, Pow2(8 - k))

\* table[i].  On an octave boundary (i a multiple of 192) the entry is the
\* exact power of two; the j-th step inside an octave is 2^(j/192), which
\* has no exact rational form and is interpolated linearly here.  The keys
\* that the specifications play are all on octave boundaries.
PulseTable(i) ==
    RMul(OctTable(i \div OctaveSteps), Rat(OctaveSteps + (i % OctaveSteps), OctaveSteps))

\* PulseFrequency::get; the key is an i32 cast to usize, so -0x6000 and
\* below wrap far above TABLE_SIZE.
PulseFreqGet(key) ==
    LET i == IF key + 24576 < 0 THEN TABLE_SIZE - 1 ELSE ((key + 24576) * 16) \div 256
    IN  PulseTable(IF i >= TABLE_SIZE THEN TABLE_SIZE - 1 ELSE i)

\* PulseFrequency::get2; a negative key cast to usize is above TABLE_SIZE.
PulseFreqGet2(key) ==
    LET i == IF key < 0 THEN TABLE_SIZE - 1 ELSE key \div 16
    IN  PulseTable(IF i >= TABLE_SIZE THEN TABLE_SIZE - 1 ELSE i)

-----------------------------------------------------------------------------
(* unit.rs *)

\* VoiceTone::default()
DefaultTone ==
    [smp_pos |-> RInt(0), offset_freq |-> RInt(0), env_volume |-> 0,
     life_count |-> 0, on_count |-> 0, env_start |-> 0, env_pos |-> 0,
     env_release_clock |-> 0]

\* Unit::new()
NewUnit ==
    [key_now |-> 0, key_start |-> 0, key_margin |-> 0,
     porta_pos |-> 0, porta_destination |-> 0,
     pan_vols |-> <<0, 0>>, pan_time_offs |-> <<0, 0>>,
     pan_time_bufs |-> <<Zeros(PanTimeBufLen), Zeros(PanTimeBufLen)>>,
     volume |-> 0, velocity |-> 0, group |-> 0, tuning |-> RInt(0),
     voice_idx |-> 0, tones |-> <<DefaultTone, DefaultTone>>, mute |-> FALSE]

\* voices.get(idx), None as <<>>
GetVoice(voices, idx) ==
    IF idx < Len(voices) THEN <<voices[idx + 1]>> ELSE <<>>

\* How many (inst, tone) pairs zip(&voice.insts, &mut unit.tones) yields.
ZipInsts(voice) == Min(Len(voice.insts), MAX_CHANNEL)
\* ... and zip(..).zip(&voice.units)
ZipUnits(voice) == Min(ZipInsts(voice), Len(voice.units))

\* Unit::tone_init
tone_init(u) ==
    [u EXCEPT !.group = 0, !.velocity = DEFAULT_VELOCITY, !.volume = DEFAULT_VOLUME,
              !.tuning = DEFAULT_TUNING, !.porta_destination = 0, !.porta_pos = 0,
              !.pan_vols = <<64, 64>>, !.pan_time_offs = <<0, 0>>]

\* The release branch of Unit::tone_envelope divides by env_release.
tone_envelope_panics(u, voices) ==
    LET v == GetVoice(voices, u.voice_idx)
    IN  /\ v # <<>>
        /\ \E i \in 1..ZipInsts(v[1]) :
              /\ u.tones[i].life_count > 0
              /\ v[1].insts[i].env # <<>>
              /\ u.tones[i].on_count <= 0
              /\ v[1].insts[i].env_release = 0

\* Unit::tone_envelope
tone_envelope(u, voices) ==
    LET v == GetVoice(voices, u.voice_idx)
        Step(tone, inst) ==
            IF tone.life_count > 0 /\ inst.env # <<>>
            THEN IF tone.on_count > 0
                 THEN IF tone.env_pos < Len(inst.env)
                      THEN [tone EXCEPT !.env_volume = inst.env[tone.env_pos + 1],
                                        !.env_pos = tone.env_pos + 1]
                      ELSE tone
                 ELSE [tone EXCEPT
                         !.env_volume =
                             AsU8(tone.env_start
                                  + TruncDiv((0 - tone.env_start) * tone.env_pos,
                                             inst.env_release)),
                         !.env_pos = tone.env_pos + 1]
            ELSE tone
    IN  IF v = <<>> THEN u
        ELSE [u EXCEPT !.tones =
                [i \in 1..MAX_CHANNEL |->
                    IF i <= ZipInsts(v[1]) THEN Step(u.tones[i], v[1].insts[i])
                    ELSE u.tones[i]]]

\* Unit::tone_key_on
tone_key_on(u) ==
    [u EXCEPT !.key_now = u.key_start + u.key_margin,
              !.key_start = u.key_start + u.key_margin,
              !.key_margin = 0]

\* Unit::tone_zero_lives
tone_zero_lives(u) ==
    [u EXCEPT !.tones = [i \in 1..MAX_CHANNEL |-> [u.tones[i] EXCEPT !.life_count = 0]]]

\* Unit::tone_key
tone_key(u, key) ==
    [u EXCEPT !.key_start = u.key_now, !.key_margin = key - u.key_now, !.porta_pos = 0]

\* Unit::tone_pan_volume
tone_pan_volume(u, vol) ==
    [u EXCEPT !.pan_vols = IF vol >= 64 THEN <<128 - vol, 64>> ELSE <<64, vol>>]

\* fn calc_pan_time(offset: u8, out_sps) -> u8; the conversion to u8 falls back to 0
calc_pan_time(offset, out_sps) ==
    LET r == (Min(offset, 63) * NATIVE_SAMPLE_RATE) \div out_sps
    IN  IF r > 255 THEN 0 ELSE r

\* PanTime::to_lr_offsets
to_lr_offsets(pan_time, sps) ==
    IF pan_time >= 64 THEN <<calc_pan_time(pan_time - 64, sps), 0>>
    ELSE <<0, calc_pan_time(64 - pan_time, sps)>>

\* Unit::tone_pan_time
tone_pan_time(u, pan_time, sps) == [u EXCEPT !.pan_time_offs = to_lr_offsets(pan_time, sps)]

\* A variant of tone_increment_key that slides while porta_pos <= porta_destination.
tone_increment_key_le(u) ==
    IF u.porta_destination # 0 /\ u.key_margin # 0
    THEN IF u.porta_pos <= u.porta_destination
         THEN [u EXCEPT !.porta_pos = u.porta_pos + 1,
                        !.key_now = RTrunc(RAdd(RInt(u.key_start),
                                                Rat(u.key_margin * (u.porta_pos + 1),
                                                    u.porta_destination)))]
         ELSE [u EXCEPT !.key_now = u.key_start + u.key_margin,
                        !.key_start = u.key_start + u.key_margin,
                        !.key_margin = 0]
    ELSE [u EXCEPT !.key_now = u.key_start + u.key_margin]

\* Unit::tone_increment_key; the key it returns is key_now of the result
tone_increment_key(u) ==
    IF u.porta_destination # 0 /\ u.key_margin # 0
    THEN IF u.porta_pos < u.porta_destination
         THEN [u EXCEPT !.porta_pos = u.porta_pos + 1,
                        !.key_now = RTrunc(RAdd(RInt(u.key_start),
                                                Rat(u.key_margin * (u.porta_pos + 1),
                                                    u.porta_destination)))]
         ELSE [u EXCEPT !.key_now = u.key_start + u.key_margin,
                        !.key_start = u.key_start + u.key_margin,
                        !.key_margin = 0]
    ELSE [u EXCEPT !.key_now = u.key_start + u.key_margin]

\* Unit::tone_increment_sample
tone_increment_sample(u, freq, voices) ==
    LET v == GetVoice(voices, u.voice_idx)
        Step(tone, inst, vu) ==
            LET life1 == IF tone.life_count > 0 THEN tone.life_count - 1 ELSE tone.life_count
                pos1 == RAdd(tone.smp_pos, RMul(RMul(tone.offset_freq, u.tuning), freq))
                n == RInt(inst.num_samples)
                over == RGeq(pos1, n)
                pos2 == IF over /\ "WAVE_LOOP" \in vu.flags
                        THEN IF RGeq(RSub(pos1, n), n) THEN RInt(0) ELSE RSub(pos1, n)
                        ELSE pos1
                life2 == IF over /\ "WAVE_LOOP" \notin vu.flags THEN 0 ELSE life1
                on1 == tone.on_count - 1
                released == on1 = 0 /\ inst.env # <<>>
            IN  IF life1 > 0
                THEN [tone EXCEPT !.life_count = life2, !.on_count = on1, !.smp_pos = pos2,
                                  !.env_start = IF released THEN tone.env_volume ELSE @,
                                  !.env_pos = IF released THEN 0 ELSE @]
                ELSE [tone EXCEPT !.life_count = life1]
    IN  IF v = <<>> THEN u
        ELSE [u EXCEPT !.tones =
                [i \in 1..MAX_CHANNEL |->
                    IF i <= ZipUnits(v[1])
                    THEN Step(u.tones[i], v[1].insts[i], v[1].units[i])
                    ELSE u.tones[i]]]

\* Unit::set_voice
set_voice(u, idx) ==
    [u EXCEPT !.voice_idx = idx, !.key_now = DEFAULT_KEY, !.key_margin = 0,
              !.key_start = DEFAULT_KEY]

\* A variant of reset_voice that leaves life_count and on_count as they are.
reset_voice_keeplife(u, mi, voice_idx, timing) ==
    LET idx == IF voice_idx >= Len(mi.voices) THEN 0 ELSE voice_idx
        u1 == set_voice(u, idx)
        v == GetVoice(mi.voices, idx)
        Reset(tone, inst, vu) ==
            [tone EXCEPT
                !.smp_pos = RInt(0),
                !.env_release_clock =
                    RTruncU(RDiv(RInt(inst.env_release), mi.samples_per_tick)),
                !.offset_freq =
                    IF "BEAT_FIT" \in vu.flags
                    THEN RDiv(RMul(RInt(inst.num_samples), timing.bpm),
                              RMul(RInt(NATIVE_SAMPLE_RATE * 60), vu.tuning))
                    ELSE RMul(PulseFreqGet(DEFAULT_BASICKEY - vu.basic_key), vu.tuning)]
    IN  IF v = <<>> THEN u1
        ELSE [u1 EXCEPT !.tones =
                [i \in 1..MAX_CHANNEL |->
                    IF i <= ZipUnits(v[1])
                    THEN Reset(u1.tones[i], v[1].insts[i], v[1].units[i])
                    ELSE u1.tones[i]]]

\* Unit::reset_voice
reset_voice(u, mi, voice_idx, timing) ==
    LET idx == IF voice_idx >= Len(mi.voices) THEN 0 ELSE voice_idx
        u1 == set_voice(u, idx)
        v == GetVoice(mi.voices, idx)
        Reset(tone, inst, vu) ==
            [tone EXCEPT
                !.life_count = 0, !.on_count = 0, !.smp_pos = RInt(0),
                !.env_release_clock =
                    RTruncU(RDiv(RInt(inst.env_release), mi.samples_per_tick)),
                !.offset_freq =
                    IF "BEAT_FIT" \in vu.flags
                    THEN RDiv(RMul(RInt(inst.num_samples), timing.bpm),
                              RMul(RInt(NATIVE_SAMPLE_RATE * 60), vu.tuning))
                    ELSE RMul(PulseFreqGet(DEFAULT_BASICKEY - vu.basic_key), vu.tuning)]
    IN  IF v = <<>> THEN u1
        ELSE [u1 EXCEPT !.tones =
                [i \in 1..MAX_CHANNEL |->
                    IF i <= ZipUnits(v[1])
                    THEN Reset(u1.tones[i], v[1].insts[i], v[1].units[i])
                    ELSE u1.tones[i]]]

\* smp_w.get(pos as usize / 2): a negative pos cast to usize is out of range
SampleAt(smp_w, pos) ==
    IF pos >= 0 /\ pos \div 2 < Len(smp_w) THEN smp_w[(pos \div 2) + 1] ELSE 0

\* Unit::tone_sample
tone_sample(u, time_pan_index, smooth_smp, voices) ==
    LET v == GetVoice(voices, u.voice_idx)
        Work(tone, inst, vu, ch) ==
            LET pos == RTrunc(tone.smp_pos) * 4 + ch * 2
                w0 == SampleAt(inst.sample_buf, pos)
                w1 == TruncDiv(w0 * u.velocity, 128)
                w2 == TruncDiv(w1 * u.volume, 128)
                w3 == TruncDiv(w2 * u.pan_vols[ch + 1], 64)
                w4 == IF inst.env # <<>> THEN TruncDiv(w3 * tone.env_volume, 128) ELSE w3
            IN  IF inst.sample_buf = <<>> \/ tone.life_count <= 0 THEN 0
                ELSE IF "SMOOTH" \in vu.flags /\ tone.life_count < smooth_smp
                     THEN TruncDiv(w4 * tone.life_count, smooth_smp)
                     ELSE w4
        Sum(ch) ==
            LET n == ZipUnits(v[1])
                W(i) == IF i <= n THEN Work(u.tones[i], v[1].insts[i], v[1].units[i], ch)
                        ELSE 0
            IN  W(1) + W(2)
    IN  IF v = <<>> THEN u
        ELSE [u EXCEPT !.pan_time_bufs =
                [c \in 1..MAX_CHANNEL |->
                    [u.pan_time_bufs[c] EXCEPT ![time_pan_index + 1] = Sum(c - 1)]]]

\* Unit::tone_supple, on the accumulators of one channel; the caller has
\* checked that u.group indexes them.
unit_tone_supple(u, group_smps, ch, time_pan_index) ==
    LET idx == (time_pan_index - u.pan_time_offs[ch + 1]) % PanTimeBufLen
    IN  [group_smps EXCEPT ![u.group + 1] = @ + u.pan_time_bufs[ch + 1][idx + 1]]

-----------------------------------------------------------------------------
(* overdrive.rs and delay.rs *)

\* Overdrive::rebuild
overdrive_rebuild(ovr) ==
    [ovr EXCEPT !.cut_16bit_top =
        RTrunc(RDiv(RMul(RInt(I16_MAX), RSub(RInt(100), ovr.cut_percent)), RInt(100)))]

\* A plausible slip in Overdrive::tone_supple: the sample cut from above only.
overdrive_tone_supple_nolow(ovr, group_smps) ==
    LET work == Min(group_smps[ovr.group + 1], ovr.cut_16bit_top)
    IN  [group_smps EXCEPT ![ovr.group + 1] = RTrunc(RMul(RInt(work), ovr.amp_mul))]

\* Overdrive::tone_supple, for an overdrive that is on
overdrive_tone_supple(ovr, group_smps) ==
    LET work == Clamp(group_smps[ovr.group + 1], -ovr.cut_16bit_top, ovr.cut_16bit_top)
    IN  [group_smps EXCEPT ![ovr.group + 1] = RTrunc(RMul(RInt(work), ovr.amp_mul))]

\* const MAX_BUF_LEN: usize = 16_777_216
MAX_BUF_LEN == 16777216

\* Delay::calc_buf_len: <<len>>, or <<>> for an Err.  A zero tempo makes the
\* quotient infinite, which `as usize` saturates and the size check refuses.
calc_buf_len(d, bp_mea, beat_tempo, sps) ==
    IF d.freq = RInt(0) THEN <<>>
    ELSE IF d.unit # "Second" /\ beat_tempo = RInt(0) THEN <<>>
    ELSE LET size ==
                CASE d.unit = "Beat" ->
                       RTruncU(RDiv(RDiv(RInt(sps * 60), beat_tempo), d.freq))
                  [] d.unit = "Meas" ->
                       RTruncU(RDiv(RDiv(RInt(sps * 60 * bp_mea), beat_tempo), d.freq))
                  [] OTHER -> RTruncU(RDiv(RInt(sps), d.freq))
         IN  IF size > MAX_BUF_LEN THEN <<>> ELSE <<size>>

\* A plausible slip in Delay::rebuild: the offset is left where it was.
delay_rebuild_keepoffset(d, bp_mea, beat_tempo, sps) ==
    LET len == calc_buf_len(d, bp_mea, beat_tempo, sps)
    IN  IF len = <<>> THEN d
        ELSE [d EXCEPT !.bufs = <<Zeros(len[1]), Zeros(len[1])>>]

\* Delay::rebuild
delay_rebuild(d, bp_mea, beat_tempo, sps) ==
    LET len == calc_buf_len(d, bp_mea, beat_tempo, sps)
    IN  IF len = <<>> THEN [d EXCEPT !.offset = 0]
        ELSE [d EXCEPT !.offset = 0, !.bufs = <<Zeros(len[1]), Zeros(len[1])>>]

\* self.bufs[ch].get(self.offset) is Some
DelayHasSample(d, ch) == d.offset < Len(d.bufs[ch + 1])

\* Delay::tone_supple, when the buffer has a sample at offset
delay_tone_supple(d, ch, group_smps) ==
    LET buf_sample == d.bufs[ch + 1][d.offset + 1]
        g == group_smps[d.group + 1] + TruncDiv(buf_sample * d.rate, 100)
    IN  [d |-> [d EXCEPT !.bufs[ch + 1][d.offset + 1] = g],
         g |-> [group_smps EXCEPT ![d.group + 1] = g]]

\* A plausible slip in Delay::tone_increment: `>` for `>=`, so that the
\* offset gets to the length of the buffers.
delay_tone_increment_gt(d) ==
    [d EXCEPT !.offset = IF d.offset + 1 > Len(d.bufs[1]) THEN 0 ELSE d.offset + 1]

\* Delay::tone_increment
delay_tone_increment(d) ==
    [d EXCEPT !.offset = IF d.offset + 1 >= Len(d.bufs[1]) THEN 0 ELSE d.offset + 1]

-----------------------------------------------------------------------------
(* herd.rs *)

\* A variant of tune_cow_voices that leaves out tone_init.
tune_cow_voices_noinit(h, mi, timing) ==
    [h EXCEPT !.units =
        [i \in 1..Len(h.units) |-> reset_voice(h.units[i], mi, 0, timing)]]

\* Herd::tune_cow_voices
tune_cow_voices(h, mi, timing) ==
    [h EXCEPT !.units =
        [i \in 1..Len(h.units) |-> reset_voice(tone_init(h.units[i]), mi, 0, timing)]]

\* rebuild_tones, for the delays and the overdrives
rebuild_tones(h, mi, master) ==
    [h EXCEPT
        !.delays = [i \in 1..Len(h.delays) |->
                      delay_rebuild(h.delays[i], master.timing.beats_per_meas,
                                    master.timing.bpm, mi.out_sample_rate)],
        !.overdrives = [i \in 1..Len(h.overdrives) |-> overdrive_rebuild(h.overdrives[i])]]

-----------------------------------------------------------------------------
(* herd/moo.rs *)

\* pub fn current_tick(herd: &Herd, ins: &MooInstructions) -> Tick
current_tick(h, mi) == RTruncU(RDiv(RInt(h.smp_count), mi.samples_per_tick))

\* A variant of the scan that stops at the next On event of any unit.
RECURSIVE NextOn_anyunit(_, _, _, _)
NextOn_anyunit(eves, i, c, u) ==
    IF i >= Len(eves) THEN <<>>
    ELSE IF eves[i + 1].tick > c THEN <<>>
    ELSE IF eves[i + 1].kind = "On" THEN <<eves[i + 1]>>
    ELSE NextOn_anyunit(eves, i + 1, c, u)

\* The scan of do_on_event for the next On event of the unit: <<event>> or <<>>.
RECURSIVE NextOn(_, _, _, _)
NextOn(eves, i, c, u) ==
    IF i >= Len(eves) THEN <<>>
    ELSE IF eves[i + 1].tick > c THEN <<>>
    ELSE IF eves[i + 1].unit = u /\ eves[i + 1].kind = "On" THEN <<eves[i + 1]>>
    ELSE NextOn(eves, i + 1, c, u)

\* fn do_on_event.  The conversions of clock, duration and ticks to i32
\* succeed for every value below 2^31, which all the inputs here are.
do_on_event(h, mi, eves, clock, duration, u, evt_tick) ==
    LET unit == h.units[u + 1]
        spt == mi.samples_per_tick
        on_count == RTrunc(RMul(RInt(evt_tick + (duration - clock)), spt))
        u1 == tone_key_on(unit)
        v == GetVoice(mi.voices, u1.voice_idx)
        Life(tone, inst) ==
            IF inst.env_release # 0
            THEN LET max_life_count1 ==
                         RTrunc(RAdd(RMul(RInt(duration - (clock - evt_tick)), spt),
                                     RInt(inst.env_release)))
                     c == evt_tick + duration + tone.env_release_clock
                     next == NextOn(eves, h.evt_idx + 1, c, u)
                     max_life_count2 ==
                         IF next # <<>>
                         THEN RTrunc(RMul(RInt(next[1].tick - clock), spt))
                         ELSE h.smp_end - RTrunc(RMul(RInt(clock), spt))
                 IN  IF max_life_count1 < max_life_count2 THEN max_life_count1
                     ELSE max_life_count2
            ELSE RTrunc(RMul(RInt(duration - (clock - evt_tick)), spt))
        Start(tone, inst) ==
            LET life == Life(tone, inst)
            IN  IF life > 0
                THEN [tone EXCEPT !.life_count = life, !.on_count = on_count,
                                  !.smp_pos = RInt(0), !.env_pos = 0,
                                  !.env_volume = IF inst.env = <<>> THEN 128 ELSE 0,
                                  !.env_start = IF inst.env = <<>> THEN 128 ELSE 0]
                ELSE [tone EXCEPT !.life_count = life]
    IN  IF on_count <= 0 THEN [h EXCEPT !.units[u + 1] = tone_zero_lives(unit)]
        ELSE IF v = <<>> THEN [h EXCEPT !.units[u + 1] = u1]
        ELSE [h EXCEPT !.units[u + 1] =
                [u1 EXCEPT !.tones =
                    [i \in 1..MAX_CHANNEL |->
                        IF i <= ZipInsts(v[1]) THEN Start(u1.tones[i], v[1].insts[i])
                        ELSE u1.tones[i]]]]

\* pub fn do_event: the herd after the event, and whether it returned Break
do_event(h, mi, sng, clock, dst_sps, evt) ==
    LET u == evt.unit
        Continue(unit) == [h |-> [h EXCEPT !.units[u + 1] = unit], brk |-> FALSE]
    IN  IF u >= Len(h.units) THEN [h |-> h, brk |-> TRUE]
        ELSE LET unit == h.units[u + 1]
             IN  CASE evt.kind = "On" ->
                        [h |-> do_on_event(h, mi, sng.events, clock, evt.value, u, evt.tick),
                         brk |-> FALSE]
                   [] evt.kind = "Key" -> Continue(tone_key(unit, evt.value))
                   [] evt.kind = "PanVol" -> Continue(tone_pan_volume(unit, evt.value))
                   [] evt.kind = "PanTime" -> Continue(tone_pan_time(unit, evt.value, dst_sps))
                   [] evt.kind = "Velocity" -> Continue([unit EXCEPT !.velocity = evt.value])
                   [] evt.kind = "Volume" -> Continue([unit EXCEPT !.volume = evt.value])
                   [] evt.kind = "Portament" ->
                        Continue([unit EXCEPT !.porta_destination =
                                     tick_to_sample(evt.value, mi.samples_per_tick)])
                   [] evt.kind = "SetVoice" ->
                        Continue(reset_voice(unit, mi, evt.value, sng.master.timing))
                   [] evt.kind = "SetGroup" -> Continue([unit EXCEPT !.group = evt.value])
                   [] evt.kind = "Tuning" -> Continue([unit EXCEPT !.tuning = evt.value])
                   [] evt.kind = "Null" -> [h |-> h, brk |-> TRUE]
                   [] OTHER -> [h |-> h, brk |-> FALSE]

\* A variant of do_next_event that steps over the event after the one it ran.
do_next_event_skip(h, mi, sng, clock, dst_sps) ==
    LET r == do_event(h, mi, sng, clock, dst_sps, sng.events[h.evt_idx + 1])
    IN  IF r.brk THEN r ELSE [h |-> [r.h EXCEPT !.evt_idx = @ + 2], brk |-> FALSE]

\* fn do_next_event
do_next_event(h, mi, sng, clock, dst_sps) ==
    LET r == do_event(h, mi, sng, clock, dst_sps, sng.events[h.evt_idx + 1])
    IN  IF r.brk THEN r ELSE [h |-> [r.h EXCEPT !.evt_idx = @ + 1], brk |-> FALSE]

\* A variant of the loop that steps over an event whose do_event call
\* returned Break and goes on.
RECURSIVE DrainEvents_nobreak(_, _, _, _, _, _)
DrainEvents_nobreak(h, mi, sng, clock, dst_sps, done) ==
    IF h.evt_idx < Len(sng.events) /\ sng.events[h.evt_idx + 1].tick <= clock
    THEN LET r == do_next_event(h, mi, sng, clock, dst_sps)
         IN  IF r.brk
             THEN DrainEvents_nobreak([r.h EXCEPT !.evt_idx = @ + 1], mi, sng, clock,
                                      dst_sps, done)
             ELSE DrainEvents_nobreak(r.h, mi, sng, clock, dst_sps,
                                      Append(done, h.evt_idx))
    ELSE [h |-> h, done |-> done]

\* The while loop of next_sample over the due events.  `done` lists the
\* index of every event whose do_event call completed, in call order.
RECURSIVE DrainEvents(_, _, _, _, _, _)
DrainEvents(h, mi, sng, clock, dst_sps, done) ==
    IF h.evt_idx < Len(sng.events) /\ sng.events[h.evt_idx + 1].tick <= clock
    THEN LET r == do_next_event(h, mi, sng, clock, dst_sps)
         IN  IF r.brk THEN [h |-> r.h, done |-> done]
             ELSE DrainEvents(r.h, mi, sng, clock, dst_sps, Append(done, h.evt_idx))
    ELSE [h |-> h, done |-> done]

\* The three loops of next_sample that fill the accumulators of a channel.
\* acc is [g, delays, panic]: indexing group_smps with a group of 7 or more
\* is out of bounds, and the program panics.
RECURSIVE SuppleUnits(_, _, _, _, _)
SuppleUnits(units, i, acc, ch, time_pan_index) ==
    IF i > Len(units) \/ acc.panic THEN acc
    ELSE IF units[i].mute THEN SuppleUnits(units, i + 1, acc, ch, time_pan_index)
    ELSE IF units[i].group >= GroupSamplesLen THEN [acc EXCEPT !.panic = TRUE]
    ELSE SuppleUnits(units, i + 1,
                     [acc EXCEPT !.g = unit_tone_supple(units[i], acc.g, ch, time_pan_index)],
                     ch, time_pan_index)

RECURSIVE SuppleOverdrives(_, _, _)
SuppleOverdrives(ovrs, i, acc) ==
    IF i > Len(ovrs) \/ acc.panic THEN acc
    ELSE IF ~ovrs[i].on THEN SuppleOverdrives(ovrs, i + 1, acc)
    ELSE IF ovrs[i].group >= GroupSamplesLen THEN [acc EXCEPT !.panic = TRUE]
    ELSE SuppleOverdrives(ovrs, i + 1,
                          [acc EXCEPT !.g = overdrive_tone_supple(ovrs[i], acc.g)])

RECURSIVE SuppleDelays(_, _, _)
SuppleDelays(i, acc, ch) ==
    IF i > Len(acc.delays) \/ acc.panic THEN acc
    ELSE IF ~DelayHasSample(acc.delays[i], ch)
         THEN SuppleDelays(i + 1, [acc EXCEPT !.delays[i].offset = 0], ch)
    ELSE IF acc.delays[i].group >= GroupSamplesLen THEN [acc EXCEPT !.panic = TRUE]
    ELSE LET r == delay_tone_supple(acc.delays[i], ch, acc.g)
         IN  SuppleDelays(i + 1, [acc EXCEPT !.g = r.g, !.delays[i] = r.d], ch)

\* The body of `for ch in 0..MAX_CHANNEL` up to the sum.
MixChannel(h, delays, ch) ==
    LET a0 == [g |-> Zeros(GroupSamplesLen), delays |-> delays, panic |-> FALSE]
        a1 == SuppleUnits(h.units, 1, a0, ch, h.time_pan_index)
        a2 == SuppleOverdrives(h.overdrives, 1, a1)
    IN  SuppleDelays(1, a2, ch)

\* `for group_smp in group_smps { out_samp += group_smp; }`
RECURSIVE SumSeq(_)
SumSeq(q) == IF q = <<>> THEN 0 ELSE Head(q) + SumSeq(Tail(q))

\* A variant of OutSample that clamps from above only.
OutSample_nolow(group_smps) == Min(SumSeq(group_smps), I16_MAX)

\* `out[ch] = out_samp.clamp(i32::from(i16::MIN), i32::from(i16::MAX)) as i16`
OutSample(group_smps) == Clamp(SumSeq(group_smps), I16_MIN, I16_MAX)

\* What next_sample leaves when a frame panics: nothing of it is observed.
Panicked(h) ==
    [h |-> h, frame |-> <<0, 0>>, groups |-> <<>>, more |-> FALSE,
     panic |-> TRUE, done |-> <<>>, rewound |-> FALSE]

\* `for unit in &mut herd.units { unit.tone_envelope(&ins.voices); }`
EnvelopeUnits(h, mi) ==
    [h EXCEPT !.units = [i \in 1..Len(h.units) |-> tone_envelope(h.units[i], mi.voices)]]

\* A variant of the event step that drains whether the frame advances or not.
FrameEvents_always(h, mi, sng, dst_sps, advance) ==
    DrainEvents(h, mi, sng, current_tick(h, mi), dst_sps, <<>>)

\* `if advance { let clock = current_tick(herd, ins); while .. }`
FrameEvents(h, mi, sng, dst_sps, advance) ==
    IF advance THEN DrainEvents(h, mi, sng, current_tick(h, mi), dst_sps, <<>>)
    ELSE [h |-> h, done |-> <<>>]

\* `for unit in &mut herd.units { unit.tone_sample(..); }`
SampleUnits(h, mi) ==
    [h EXCEPT !.units =
       [i \in 1..Len(h.units) |->
          tone_sample(h.units[i], h.time_pan_index, h.smp_smooth, mi.voices)]]

\* `for ch in 0..MAX_CHANNEL`: channel 1 after channel 0, whose delays it
\* inherits.
MixSecond(h, m0) ==
    LET m1 == MixChannel(h, m0.delays, 1)
    IN  [groups |-> <<m0.g, m1.g>>, delays |-> m1.delays, panic |-> m0.panic \/ m1.panic]

MixChannels(h) == MixSecond(h, MixChannel(h, h.delays, 0))

\* A variant of the increments that leaves out tone_increment_sample.
IncrementFrame_nosample(h, delays, mi, advance) ==
    [h EXCEPT !.smp_count = IF advance THEN @ + 1 ELSE @,
              !.time_pan_index = (@ + 1) % PanTimeBufLen,
              !.units = [i \in 1..Len(h.units) |-> tone_increment_key(h.units[i])],
              !.delays = [i \in 1..Len(delays) |-> delay_tone_increment(delays[i])]]

\* The sample count, the pan index, and the two increment loops.
IncrementFrame(h, delays, mi, advance) ==
    LET Incr(unit) ==
            LET u1 == tone_increment_key(unit)
            IN  tone_increment_sample(u1, RMul(PulseFreqGet2(u1.key_now), h.smp_stride),
                                      mi.voices)
    IN  [h EXCEPT !.smp_count = IF advance THEN @ + 1 ELSE @,
                  !.time_pan_index = (@ + 1) % PanTimeBufLen,
                  !.units = [i \in 1..Len(h.units) |-> Incr(h.units[i])],
                  !.delays = [i \in 1..Len(delays) |-> delay_tone_increment(delays[i])]]

\* `if herd.smp_count >= herd.smp_end { .. } true`
FrameEnd(h, mi, sng) ==
    IF h.smp_count < h.smp_end THEN [h |-> h, more |-> TRUE, rewound |-> FALSE]
    ELSE IF ~h.loop_ THEN [h |-> h, more |-> FALSE, rewound |-> FALSE]
    ELSE [h |-> tune_cow_voices([h EXCEPT !.smp_count = h.smp_repeat, !.evt_idx = 0],
                                mi, sng.master.timing),
          more |-> TRUE, rewound |-> TRUE]

\* What the frame leaves: the herd, the frame written to `out`, the value
\* returned (`more`), the events dispatched, whether the loop rewound.
FrameResult(e, m, done) ==
    [h |-> e.h, frame |-> <<OutSample(m.groups[1]), OutSample(m.groups[2])>>,
     groups |-> m.groups, more |-> e.more, panic |-> FALSE, done |-> done,
     rewound |-> e.rewound]

\* next_sample from the channel loop on, h0 being the herd on entry.
NextSampleMix(h0, h, m, done, mi, sng, advance) ==
    IF m.panic THEN Panicked(h0)
    ELSE FrameResult(FrameEnd(IncrementFrame(h, m.delays, mi, advance), mi, sng), m, done)

\* next_sample from the tone_sample loop on.
NextSampleTone(h0, h, done, mi, sng, advance) ==
    NextSampleMix(h0, h, MixChannels(h), done, mi, sng, advance)

\* next_sample after the event loop, whose result is dr.
NextSampleEvents(h0, dr, mi, sng, advance) ==
    NextSampleTone(h0, SampleUnits(dr.h, mi), dr.done, mi, sng, advance)

\* pub(super) fn next_sample: the herd after the frame, the frame written to
\* `out`, the value returned (`more`), and whether the frame panicked (the
\* other fields mean nothing then).
next_sample(h, mi, sng, dst_sps, advance) ==
    IF \E i \in 1..Len(h.units) : tone_envelope_panics(h.units[i], mi.voices)
    THEN Panicked(h)
    ELSE NextSampleEvents(h, FrameEvents(EnvelopeUnits(h, mi), mi, sng, dst_sps, advance),
                          mi, sng, advance)

\* fn calc_sample_num
calc_sample_num(meas_num, beat_num, sps, beat_tempo) ==
    IF beat_tempo = RInt(0) THEN 0
    ELSE RTruncU(RDiv(RInt(sps * 60 * (meas_num * beat_num)), beat_tempo))

\* fn get_total_sample
get_total_sample(master, out_sample_rate) ==
    calc_sample_num(master.meas_num, master.timing.beats_per_meas, out_sample_rate,
                    master.timing.bpm)

\* pub fn moo_prepare, for a non-zero out_sample_rate: the instructions and
\* the herd it leaves.  It does not touch herd.end.
moo_prepare(mi, h, sng, plan) ==
    LET timing == sng.master.timing
        meas_end == IF plan.meas_end = <<>> THEN get_play_meas(sng.master)
                    ELSE plan.meas_end[1]
        meas_repeat == IF plan.meas_repeat = <<>> THEN sng.master.loop_points.repeat
                       ELSE plan.meas_repeat[1]
        spt == samples_per_tick(mi.out_sample_rate, timing)
        mi1 == [mi EXCEPT !.samples_per_tick = spt]
        smp_start ==
            CASE plan.start_pos.kind = "Meas" -> meas_to_sample(plan.start_pos.val, spt, timing)
              [] plan.start_pos.kind = "Sample" -> plan.start_pos.val
              [] OTHER ->
                   RTruncU(RMul(RInt(get_total_sample(sng.master, mi.out_sample_rate)),
                                plan.start_pos.val))
        h1 == [h EXCEPT !.loop_ = plan.loop_,
                        !.smp_stride = Rat(NATIVE_SAMPLE_RATE, mi.out_sample_rate),
                        !.time_pan_index = 0,
                        !.smp_end = meas_to_sample(meas_end, spt, timing),
                        !.smp_repeat = meas_to_sample(meas_repeat, spt, timing),
                        !.smp_start = smp_start,
                        !.smp_count = smp_start,
                        !.smp_smooth = mi.out_sample_rate \div 250,
                        !.evt_idx = 0]
    IN  [ins |-> mi1, herd |-> tune_cow_voices(h1, mi1, timing)]

-----------------------------------------------------------------------------
(* Inputs of the playback specifications *)

\* Master::read_v5, followed by the recalculate_length of read_song
ReadSong(timing, repeat_tick, last_tick, eves) ==
    recalculate_length(
        [master |-> [timing |-> timing,
                     loop_points |-> from_ticks(repeat_tick, last_tick, timing),
                     meas_num |-> 1],
         events |-> eves])

\* Herd::default() with the units, delays and overdrives that io::read
\* pushed, after the rebuild_tones of read_song
ReadHerd(nunits, delays, overdrives, mi, master) ==
    rebuild_tones(
        [end |-> FALSE, loop_ |-> FALSE, smp_smooth |-> 0, smp_count |-> 0,
         smp_start |-> 0, smp_end |-> 0, smp_repeat |-> 0, smp_stride |-> RInt(0),
         time_pan_index |-> 0, evt_idx |-> 0,
         units |-> [i \in 1..nunits |-> NewUnit],
         delays |-> delays, overdrives |-> overdrives],
        mi, master)

\* Timing::default()
DefaultTiming == [ticks_per_beat |-> 480, bpm |-> RInt(120), beats_per_meas |-> 4]

\* Songs that are over in a few frames at 44100 Hz: a tick is two samples and
\* a measure two ticks, or a tick is half a sample and a measure four ticks.
TimingSlow == [ticks_per_beat |-> 1, bpm |-> RInt(1323000), beats_per_meas |-> 2]
TimingFast == [ticks_per_beat |-> 2, bpm |-> RInt(2646000), beats_per_meas |-> 2]

Eve(tick, unit, kind, value) == [tick |-> tick, unit |-> unit, kind |-> kind, value |-> value]

\* The events songs are made of, in tick order: two units are turned on,
\* one moves to another voice and group, and one is sent to a group index
\* past the end of the accumulators.
Score ==
    << Eve(0, 0, "On", 2), Eve(0, 1, "SetVoice", 1), Eve(0, 1, "SetGroup", 1),
       Eve(1, 1, "On", 1), Eve(2, 0, "SetGroup", 7), Eve(3, 0, "On", 1) >>

\* The subsequences of q with at most n elements.
RECURSIVE SubSeqs(_, _)
SubSeqs(q, n) ==
    IF q = <<>> \/ n = 0 THEN {<<>>}
    ELSE SubSeqs(Tail(q), n) \cup {<<Head(q)>> \o r : r \in SubSeqs(Tail(q), n - 1)}

\* A two-channel looping wave of full amplitude, and a one-channel wave
\* with an attack envelope and a release.
VoiceLoud ==
    [units |-> [i \in 1..2 |-> [basic_key |-> DEFAULT_BASICKEY, tuning |-> RInt(1),
                                flags |-> {"WAVE_LOOP"}]],
     insts |-> [i \in 1..2 |-> [num_samples |-> 2,
                                sample_buf |-> <<32767, 32767, -32768, -32768>>,
                                env |-> <<>>, env_release |-> 0]]]
VoiceEnv ==
    [units |-> <<[basic_key |-> DEFAULT_BASICKEY, tuning |-> RInt(1),
                  flags |-> {"WAVE_LOOP"}]>>,
     insts |-> <<[num_samples |-> 1, sample_buf |-> <<32767, -32768>>,
                  env |-> <<64, 128>>, env_release |-> 2]>>]

\* A delay of one beat on group 0 and an overdrive on group 1, as read from
\* a file (buffers and cut level not yet rebuilt).
EchoDelay ==
    [unit |-> "Beat", group |-> 0, rate |-> 50, freq |-> RInt(1), offset |-> 0,
     bufs |-> <<<<>>, <<>>>>]
HalfOverdrive ==
    [on |-> TRUE, group |-> 1, cut_percent |-> RInt(50), amp_mul |-> RInt(2),
     cut_16bit_top |-> 0]

Instructions(voices) ==
    [out_sample_rate |-> NATIVE_SAMPLE_RATE, voices |-> voices, samples_per_tick |-> RInt(0)]

\* What read_song returned: a song without events, one unit and no voices ...
EmptyLoads ==
    { LET sng == ReadSong(t, 0, 0, <<>>)
          mi == Instructions(<<>>)
      IN  [song |-> sng, ins |-> mi, herd |-> ReadHerd(1, <<>>, <<>>, mi, sng.master)]
      : t \in {TimingSlow, TimingFast} }

\* ... or a song of events of the score, two units, two voices and effects.
ScoreLoads ==
    { LET sng == ReadSong(t, 0, 0, eves)
          mi == Instructions(<<VoiceLoud, VoiceEnv>>)
      IN  [song |-> sng, ins |-> mi,
           herd |-> ReadHerd(2, <<EchoDelay>>, <<HalfOverdrive>>, mi, sng.master)]
      : t \in {TimingSlow, TimingFast}, eves \in SubSeqs(Score, MaxEvents) \ {<<>>} }

Plan(kind, val, meas_end, meas_repeat, loop_) ==
    [start_pos |-> [kind |-> kind, val |-> val], meas_end |-> meas_end,
     meas_repeat |-> meas_repeat, loop_ |-> loop_]

Plans ==
    { Plan("Sample", 0, <<>>, <<>>, FALSE), Plan("Sample", 0, <<>>, <<>>, TRUE),
      Plan("Sample", 1, <<>>, <<>>, FALSE), Plan("Meas", 1, <<>>, <<1>>, TRUE),
      Plan("F32", Rat(1, 2), <<1>>, <<>>, FALSE) }

-----------------------------------------------------------------------------
(* Actions of the playback engine *)

\* moo_prepare(&mut ins, &mut herd, &song, &plan)
MooPrepare(plan) ==
    /\ pc = "loaded"
    /\ LET r == moo_prepare(ins, herd, song, plan)
       IN  ins' = r.ins /\ herd' = r.herd
    /\ pc' = "idle"
    /\ call' = NoCall
    /\ ret' = "none"
    /\ mix' = NoMix
    /\ pass' = NoPass
    /\ UNCHANGED song
    /\ UNCHANGED codecVars
    /\ UNCHANGED fileVars

\* The buffers handed to Herd::moo, in stereo frames.
BufLens == {1, 2}

\* herd.moo(&ins, &song, &mut buf, advance) is entered with a buffer of n
\* frames; `if self.end { return false; }`
MooCall(n, advance) ==
    /\ pc = "idle"
    /\ call' = [buflen |-> n, advance |-> advance, written |-> 0]
    /\ IF herd.end
       THEN ret' = "false" /\ UNCHANGED <<pc, pass>>
       ELSE /\ ret' = "none"
            /\ pc' = "moo"
            /\ pass' = [pass EXCEPT !.paused = @ \/ ~advance]
    /\ UNCHANGED <<song, ins, herd, mix>>
    /\ UNCHANGED codecVars
    /\ UNCHANGED fileVars

\* What a frame adds to the observations: the events it dispatched, with
\* the sample count of the frame and of the advancing frame before it.
Observe(ps, h, r, advance) ==
    [log |-> IF r.rewound THEN <<>>
             ELSE ps.log \o [k \in 1..Len(r.done) |->
                               [idx |-> r.done[k], smp |-> h.smp_count,
                                prev |-> ps.last_smp]],
     last_smp |-> IF r.rewound THEN -1
                  ELSE IF advance THEN h.smp_count
                  ELSE ps.last_smp,
     frames |-> ps.frames + 1,
     silent |-> ps.silent /\ r.frame = <<0, 0>>,
     paused |-> ps.paused]

\* What a turn of the loop of Herd::moo does with the result r of
\* next_sample, and the return that follows the last turn.
MooWrite(r, w) ==
    IF r.panic
    THEN pc' = "panic" /\ UNCHANGED <<herd, call, ret, mix, pass>>
    ELSE /\ herd' = [r.h EXCEPT !.end = ~r.more]
         /\ call' = [call EXCEPT !.written = w]
         /\ mix' = [out |-> r.frame, groups |-> r.groups]
         /\ pass' = Observe(pass, herd, r, call.advance)
         /\ IF ~r.more \/ w = call.buflen
            THEN pc' = "idle" /\ ret' = "true"
            ELSE UNCHANGED <<pc, ret>>

\* One turn of the loop of Herd::moo over the frames of the buffer.
MooFrame ==
    /\ pc = "moo"
    /\ MooWrite(next_sample(herd, ins, song, ins.out_sample_rate, call.advance),
                call.written + 1)
    /\ UNCHANGED <<song, ins>>
    /\ UNCHANGED codecVars
    /\ UNCHANGED fileVars

-----------------------------------------------------------------------------
(* Spec: a song is loaded, prepared and rendered *)

Init ==
    /\ rd = [data |-> <<>>, cur |-> 0]
    /\ vres = NoResult
    /\ out = <<>>
    /\ written = <<>>
    /\ readback = <<>>
    /\ tv = NoTest
    /\ \E ld \in EmptyLoads \cup ScoreLoads :
          song = ld.song /\ ins = ld.ins /\ herd = ld.herd
    /\ pc = "loaded"
    /\ call = NoCall
    /\ ret = "none"
    /\ mix = NoMix
    /\ pass = NoPass
    /\ load = NoLoad

\* A run has at most one call with advance = false, and no call is made
\* that would take it past MaxFrames frames.
Next ==
    \/ \E plan \in Plans : MooPrepare(plan)
    \/ \E n \in BufLens, advance \in BOOLEAN :
          /\ advance \/ ~pass.paused
          /\ herd.end \/ pass.frames + n <= MaxFrames
          /\ MooCall(n, advance)
    \/ MooFrame

Spec == Init /\ [][Next]_vars

(* SpecS1: the empty song of scenario S1 is rendered to its end *)

\* A song with no events at the default timing, one unit and no voices.
S1Load ==
    LET sng == ReadSong(DefaultTiming, 0, 0, <<>>)
        mi == Instructions(<<>>)
    IN  [song |-> sng, ins |-> mi, herd |-> ReadHerd(1, <<>>, <<>>, mi, sng.master)]

InitS1 ==
    /\ rd = [data |-> <<>>, cur |-> 0]
    /\ vres = NoResult
    /\ out = <<>>
    /\ written = <<>>
    /\ readback = <<>>
    /\ tv = NoTest
    /\ song = S1Load.song
    /\ ins = S1Load.ins
    /\ herd = S1Load.herd
    /\ pc = "loaded"
    /\ call = NoCall
    /\ ret = "none"
    /\ mix = NoMix
    /\ pass = NoPass
    /\ load = NoLoad

NextS1 ==
    \/ MooPrepare(Plan("Sample", 0, <<>>, <<>>, FALSE))
    \/ MooCall(BigBuf, TRUE)
    \/ MooFrame

SpecS1 == InitS1 /\ [][NextS1]_vars

-----------------------------------------------------------------------------
(* Claims about the playback engine *)

\* moo_prepare has run.
Prepared == pc \in {"idle", "moo"}

\* A Herd::moo call has returned and no other was entered since.
Returned == pc = "idle" /\ ret # "none"

\* C1: Herd::moo never leaves a partially filled buffer: every call that
\* returns true has written all the frames of its buffer, and the call in
\* which the end of a non-looping song is reached returns false.
C1_NoPartialBuffer ==
    (Returned /\ ret = "true") => call.written = call.buflen

\* C2: for the song with no events (one measure of four beats at 120 bpm
\* and 480 ticks per beat, rendered at 44100 Hz from Sample(0) without loop
\* and with advance = true) moo writes exactly smp_end = 2 * 44100 frames,
\* every one of them 0, and the calls after that return false.
C2_EmptySong ==
    Prepared =>
        /\ herd.smp_end = 2 * 44100
        /\ pass.silent /\ mix.out = <<0, 0>>
        /\ pass.frames <= herd.smp_end
        /\ herd.end <=> pass.frames = herd.smp_end
        /\ (Returned /\ ret = "false") <=> (Returned /\ herd.end /\ call.written = 0)

\* The stream of the empty song has ended: a call returned false after
\* 88200 silent frames.
C2_Witness ==
    /\ song.events = <<>> /\ ~herd.loop_ /\ herd.smp_start = 0 /\ ~pass.paused
    /\ Returned /\ ret = "false"
    /\ pass.frames = 88200 /\ pass.silent

\* The tick of the frame rendered at sample count smp: the whole part of
\* smp / samples_per_tick.
TickAt(smp) == (smp * ins.samples_per_tick[2]) \div ins.samples_per_tick[1]

EveTick(i) == song.events[i + 1].tick

\* C3: during a pass over a tick-sorted event list without Null and with
\* valid unit indices, the events are dispatched once each and in list
\* order, each on the first frame whose tick is at or past the event's tick
\* and never on an earlier one; after the drain of a frame, evt_idx is the
\* index of the first event whose tick is past the frame's tick, or the
\* length of the list.
C3_DispatchOrder ==
    Prepared =>
        /\ \A k \in 1..Len(pass.log) :
              /\ pass.log[k].idx = k - 1
              /\ EveTick(pass.log[k].idx) <= TickAt(pass.log[k].smp)
              /\ pass.log[k].prev >= 0 => TickAt(pass.log[k].prev) < EveTick(pass.log[k].idx)
        /\ pass.last_smp >= 0 =>
              /\ herd.evt_idx = Len(pass.log)
              /\ \A i \in 0..(Len(song.events) - 1) :
                    i < herd.evt_idx <=> EveTick(i) <= TickAt(pass.last_smp)

\* Three events were dispatched on two different frames of a pass, one of
\* them on a frame whose tick is past the event's tick, and an event is
\* still waiting.
C3_Witness ==
    /\ Prepared
    /\ Len(pass.log) = 2
    /\ herd.evt_idx = 2 /\ Len(song.events) = 3
    /\ pass.log[1].smp < pass.log[2].smp
    /\ EveTick(1) < TickAt(pass.log[2].smp)

\* What tone_init and reset_voice(ins, VoiceIdx(0), timing) leave in a unit.
Retuned(u) ==
    /\ u.group = 0 /\ u.velocity = 104 /\ u.volume = 104 /\ u.tuning = <<1, 1>>
    /\ u.porta_destination = 0 /\ u.porta_pos = 0
    /\ u.pan_vols = <<64, 64>> /\ u.pan_time_offs = <<0, 0>>
    /\ u.voice_idx = 0
    /\ u.key_now = 24576 /\ u.key_start = 24576 /\ u.key_margin = 0
    /\ Len(ins.voices) > 0 =>
          \A i \in 1..Len(ins.voices[1].insts) :
              u.tones[i].life_count = 0 /\ u.tones[i].on_count = 0

Looping == Prepared /\ herd.loop_ /\ herd.smp_repeat < herd.smp_end

\* C4: with loop_ = true and smp_repeat < smp_end the stream never ends:
\* no call returns false, smp_count < smp_end after every frame, and the
\* frame on which smp_count reaches smp_end sets smp_count to smp_repeat and
\* evt_idx to 0 and re-tunes every unit.
C4_LoopNeverEnds ==
    /\ [](Looping =>
            /\ ~herd.end /\ ret # "false"
            /\ pass.frames > 0 => herd.smp_count < herd.smp_end)
    /\ [][(/\ Looping /\ pc = "moo" /\ pc' # "panic"
           /\ herd.smp_count + (IF call.advance THEN 1 ELSE 0) >= herd.smp_end)
          => (/\ herd'.smp_count = herd.smp_repeat
              /\ herd'.evt_idx = 0
              /\ \A i \in 1..Len(herd'.units) : Retuned(herd'.units[i])
              /\ ret' # "false")]_vars

\* A looping song has just been rewound, after its events had moved a unit
\* to another group, and rendering went on.
C4_Witness ==
    /\ Looping /\ ~pass.paused
    /\ pass.frames > herd.smp_end - herd.smp_start
    /\ herd.smp_start < herd.smp_end
    /\ \E i \in 1..Len(song.events) :
          song.events[i].kind = "SetGroup" /\ song.events[i].value = 1
    /\ Returned /\ ret = "true"

\* C5: the render loop does not abort, whatever the events carry.
C5_NoAbort == pc # "panic"

\* `for group_smp in group_smps`, written out
SevenSum(g) == g[1] + g[2] + g[3] + g[4] + g[5] + g[6] + g[7]

\* C6: on every frame and channel the output is the sum of the seven group
\* accumulators (after the units, the overdrives and the delays) clamped to
\* the range of i16.
C6_ClampedSum ==
    (Prepared /\ pass.frames > 0) =>
        \A c \in 1..MAX_CHANNEL :
            /\ Len(mix.groups[c]) = 7
            /\ mix.out[c] >= -32768 /\ mix.out[c] <= 32767
            /\ SevenSum(mix.groups[c]) > 32767 => mix.out[c] = 32767
            /\ SevenSum(mix.groups[c]) < -32768 => mix.out[c] = -32768
            /\ (SevenSum(mix.groups[c]) >= -32768 /\ SevenSum(mix.groups[c]) <= 32767)
                  => mix.out[c] = SevenSum(mix.groups[c])

\* A frame whose left sum is above the range and was clamped, with two
\* groups sounding, and a frame whose sum is below the range.
C6_Witness ==
    /\ Prepared /\ pass.frames > 0
    /\ mix.groups[1][1] > 0 /\ mix.groups[1][2] > 0
    /\ SevenSum(mix.groups[1]) > 32767 /\ mix.out[1] = 32767

-----------------------------------------------------------------------------
(* Part III: the file format *)

\* u32 values that fit the model checker's integers, as integers.
U32ToInt(n) == n[1] * 65536 + n[2]

\* An i32 reinterpreted as u32 (cast_unsigned, two's complement).
CastUnsigned(k) == U32((k \div 65536) % 65536, k % 65536)

\* A u32 reinterpreted as i32 (cast_signed).
CastSigned(n) == (IF n[1] >= 32768 THEN n[1] - 65536 ELSE n[1]) * 65536 + n[2]

\* The f32 values the files drawn carry, with their bit patterns (as u32).
F32Table ==
    { <<U32(0, 0), Rat(0, 1)>>, <<U32(16128, 0), Rat(1, 2)>>, <<U32(16256, 0), Rat(1, 1)>>,
      <<U32(16384, 0), Rat(2, 1)>>, <<U32(16672, 0), Rat(10, 1)>>,
      <<U32(16968, 0), Rat(50, 1)>>, <<U32(16970, 0), Rat(101, 2)>>,
      <<U32(17136, 0), Rat(120, 1)>>, <<U32(18849, 32704), Rat(1323000, 1)>> }

\* f32::from_bits / bytemuck::pod_read_unaligned::<f32>
f32_from_bits(bits) == (CHOOSE p \in F32Table : p[1] = bits)[2]

\* f32::to_bits
f32_to_bits(x) == (CHOOSE p \in F32Table : p[2] = x)[1]

\* Reader::next::<T>() for a T of `amount` bytes: Err(ReadError) as ok = FALSE
ReaderNext(r, amount) ==
    IF r.cur + amount <= Len(r.data)
    THEN [ok |-> TRUE, bytes |-> SubSeq(r.data, r.cur + 1, r.cur + amount),
          rd |-> [r EXCEPT !.cur = @ + amount]]
    ELSE [ok |-> FALSE, bytes |-> <<>>, rd |-> r]

\* Tag::to_code, as a function of the tag
to_code ==
    [AntiOPER |-> <<97, 110, 116, 105, 79, 80, 69, 82>>,
     AssiUNIT |-> <<97, 115, 115, 105, 85, 78, 73, 84>>,
     AssiWOIC |-> <<97, 115, 115, 105, 87, 79, 73, 67>>,
     EffeDELA |-> <<101, 102, 102, 101, 68, 69, 76, 65>>,
     EffeOVER |-> <<101, 102, 102, 101, 79, 86, 69, 82>>,
     EventV5 |-> <<69, 118, 101, 110, 116, 32, 86, 53>>,
     MasterV5 |-> <<77, 97, 115, 116, 101, 114, 86, 53>>,
     MateOGGV |-> <<109, 97, 116, 101, 79, 71, 71, 86>>,
     MatePCM |-> <<109, 97, 116, 101, 80, 67, 77, 32>>,
     MatePTN |-> <<109, 97, 116, 101, 80, 84, 78, 32>>,
     MatePTV |-> <<109, 97, 116, 101, 80, 84, 86, 32>>,
     NumUNIT |-> <<110, 117, 109, 32, 85, 78, 73, 84>>,
     PxtoneND |-> <<112, 120, 116, 111, 110, 101, 78, 68>>,
     TextCOMM |-> <<116, 101, 120, 116, 67, 79, 77, 77>>,
     TextNAME |-> <<116, 101, 120, 116, 78, 65, 77, 69>>,
     V1End |-> <<69, 78, 68, 61, 61, 61, 61, 61>>,
     V1Event |-> <<69, 86, 69, 78, 84, 61, 61, 61>>,
     V1Pcm |-> <<109, 97, 116, 101, 80, 67, 77, 61>>,
     V1Proj |-> <<80, 82, 79, 74, 69, 67, 84, 61>>,
     V1Unit |-> <<85, 78, 73, 84, 61, 61, 61, 61>>,
     V3Unit |-> <<112, 120, 116, 110, 85, 78, 73, 84>>,
     V4EvenMast |-> <<101, 118, 101, 110, 77, 65, 83, 84>>,
     V4EvenUnit |-> <<101, 118, 101, 110, 85, 78, 73, 84>>]

\* The tags PROJECT=, UNIT====, EVENT===, matePCM=, pxtnUNIT, evenMAST and
\* evenUNIT of the older formats
LegacyTags == {"V1Proj", "V1Unit", "V1Event", "V1Pcm", "V3Unit", "V4EvenMast", "V4EvenUnit"}

\* A plausible slip in Tag::from_code: the arms of the tags of the older
\* formats left out, so that these codes are unknown.
from_code_v5only(code) ==
    IF \E t \in DOMAIN to_code \ LegacyTags : to_code[t] = code
    THEN CHOOSE t \in DOMAIN to_code \ LegacyTags : to_code[t] = code
    ELSE "None"

\* Tag::from_code, None as "None"
from_code(code) ==
    IF \E t \in DOMAIN to_code : to_code[t] = code
    THEN CHOOSE t \in DOMAIN to_code : to_code[t] = code
    ELSE "None"

\* The version strings V1_COLLAGE .. V5_TUNE with the (FmtVer, FmtKind) of each
VersionCodes ==
    { [ver |-> "V1", kind |-> "Collage", code |-> <<80, 84, 67, 79, 76, 76, 65, 71, 69, 45, 48, 53, 48, 50, 50, 55>>],
      [ver |-> "V2", kind |-> "Collage", code |-> <<80, 84, 67, 79, 76, 76, 65, 71, 69, 45, 48, 53, 48, 54, 48, 56>>],
      [ver |-> "V2", kind |-> "Tune", code |-> <<80, 84, 84, 85, 78, 69, 45, 45, 50, 48, 48, 53, 48, 54, 48, 56>>],
      [ver |-> "V3", kind |-> "Collage", code |-> <<80, 84, 67, 79, 76, 76, 65, 71, 69, 45, 48, 54, 48, 49, 49, 53>>],
      [ver |-> "V3", kind |-> "Tune", code |-> <<80, 84, 84, 85, 78, 69, 45, 45, 50, 48, 48, 54, 48, 49, 49, 53>>],
      [ver |-> "V4", kind |-> "Collage", code |-> <<80, 84, 67, 79, 76, 76, 65, 71, 69, 45, 48, 54, 48, 57, 51, 48>>],
      [ver |-> "V4", kind |-> "Tune", code |-> <<80, 84, 84, 85, 78, 69, 45, 45, 50, 48, 48, 54, 48, 57, 51, 48>>],
      [ver |-> "V5", kind |-> "Collage", code |-> <<80, 84, 67, 79, 76, 76, 65, 71, 69, 45, 48, 55, 49, 49, 49, 57>>],
      [ver |-> "V5", kind |-> "Tune", code |-> <<80, 84, 84, 85, 78, 69, 45, 45, 50, 48, 48, 55, 49, 49, 49, 57>>] }

\* "<no name>", the name of a unit or voice made by Unit::new / Voice::default
NoName == <<60, 110, 111, 32, 110, 97, 109, 101, 62>>

\* fn strlen, and the bytes before that length; SHIFT_JIS decoding and
\* encoding leave the ASCII names drawn as they are
RECURSIVE NameOf(_)
NameOf(buf) == IF buf = <<>> \/ Head(buf) = 0 THEN <<>> ELSE <<Head(buf)>> \o NameOf(Tail(buf))

\* What a reader returns: Err(e) as err = e, a panic of the program as one
\* of Panics, and on "Ok" the reader after the call and the value read.
ReadResult(err, r, val) == [err |-> err, rd |-> r, val |-> val]

\* The panics of the readers: an unwrap of Err(ReadError), an unwrap of a
\* failed try_into, a push on a full ArrayVec, an index past the end of a
\* Vec and a division by zero
Panics == {"PanicUnwrap", "PanicTryFrom", "PanicCapacity", "PanicIndex", "PanicDivZero"}

\* fn read_version
read_version(r) ==
    LET Info(v, e, d) ==
            IF ~v.ok THEN ReadResult("Data", r, <<>>)
            ELSE IF ~\E c \in VersionCodes : c.code = v.bytes
                 THEN ReadResult("FmtUnknown", r, <<>>)
            ELSE IF ~e.ok \/ ~d.ok THEN ReadResult("Data", r, <<>>)
            ELSE LET c == CHOOSE c \in VersionCodes : c.code = v.bytes
                 IN  ReadResult("Ok", d.rd, [ver |-> c.ver, kind |-> c.kind,
                                             exe_ver |-> e.bytes[1] + 256 * e.bytes[2],
                                             dummy |-> d.bytes[1] + 256 * d.bytes[2]])
        Dummy(v, e) == Info(v, e, ReaderNext(e.rd, 2))
        ExeVer(v) == Dummy(v, ReaderNext(v.rd, 2))
    IN  ExeVer(ReaderNext(r, 16))

\* fn read_unit_num
read_unit_num(r) ==
    LET Num(size, data) ==
            IF ~size.ok THEN ReadResult("Data", r, 0)
            ELSE IF FromLeBytes(size.bytes) # U32(0, 4) THEN ReadResult("FmtUnknown", r, 0)
            ELSE IF ~data.ok THEN ReadResult("Data", r, 0)
            ELSE IF data.bytes[3] + 256 * data.bytes[4] # 0
                 THEN ReadResult("FmtUnknown", r, 0)
            ELSE IF data.bytes[1] + 256 * data.bytes[2] > 50
                 THEN ReadResult("FmtNewer", r, 0)
            ELSE ReadResult("Ok", data.rd, data.bytes[1] + 256 * data.bytes[2])
        Data(size) == Num(size, ReaderNext(size.rd, 4))
    IN  Data(ReaderNext(r, 4))

\* Master::read_v5; tick_to_meas divides by ticks_per_beat and by
\* beats_per_meas, and a division by zero panics
read_v5(r) ==
    LET Master(size, f) ==
            IF ~size.ok THEN ReadResult("Data", r, <<>>)
            ELSE IF FromLeBytes(size.bytes) # U32(0, 15) THEN ReadResult("FmtUnknown", r, <<>>)
            ELSE IF ~f.ok THEN ReadResult("Data", r, <<>>)
            ELSE LET timing == [ticks_per_beat |-> f.bytes[1] + 256 * f.bytes[2],
                                bpm |-> f32_from_bits(FromLeBytes(SubSeq(f.bytes, 4, 7))),
                                beats_per_meas |-> f.bytes[3]]
                     repeat_tick == U32ToInt(FromLeBytes(SubSeq(f.bytes, 8, 11)))
                     last_tick == U32ToInt(FromLeBytes(SubSeq(f.bytes, 12, 15)))
                 IN  IF timing.ticks_per_beat = 0 \/ timing.beats_per_meas = 0
                     THEN ReadResult("PanicDivZero", r, <<>>)
                     ELSE ReadResult("Ok", f.rd,
                                     [timing |-> timing,
                                      loop_points |-> from_ticks(repeat_tick, last_tick, timing),
                                      meas_num |-> 1])
        \* the five fields, read one after the other, make 15 bytes
        Fields(size) == Master(size, ReaderNext(size.rd, 15))
    IN  Fields(ReaderNext(r, 4))

\* The names of the payloads, by kind
KindNames ==
    << "On", "Key", "PanVol", "Velocity", "Volume", "Portament", "BeatClock", "BeatTempo",
       "BeatNum", "Repeat", "Last", "SetVoice", "SetGroup", "Tuning", "PanTime" >>

\* `let payload = match kind { .. }` of EveList::read: a try_into().unwrap()
\* that fails panics
read_payload(kind, value) ==
    LET name == IF kind = 0 THEN "Null" ELSE IF kind <= 15 THEN KindNames[kind] ELSE "None"
        IsU8 == value[1] = 0 /\ value[2] <= 255
        IsI16 == CastSigned(value) >= -32768 /\ CastSigned(value) <= 32767
    IN  CASE name = "None" -> [err |-> "InvalidData", kind |-> name, value |-> 0]
          [] name \in {"On", "Portament"} ->
               [err |-> "Ok", kind |-> name, value |-> U32ToInt(value)]
          [] name = "Key" ->
               IF value[1] >= 32768 THEN [err |-> "PanicTryFrom", kind |-> name, value |-> 0]
               ELSE [err |-> "Ok", kind |-> name, value |-> U32ToInt(value)]
          [] name \in {"PanVol", "SetVoice", "SetGroup", "PanTime"} ->
               IF ~IsU8 THEN [err |-> "PanicTryFrom", kind |-> name, value |-> 0]
               ELSE [err |-> "Ok", kind |-> name, value |-> value[2]]
          [] name \in {"Velocity", "Volume"} ->
               IF ~IsI16 THEN [err |-> "PanicTryFrom", kind |-> name, value |-> 0]
               ELSE [err |-> "Ok", kind |-> name, value |-> CastSigned(value)]
          [] name = "Tuning" -> [err |-> "Ok", kind |-> name, value |-> f32_from_bits(value)]
          [] OTHER -> [err |-> "Ok", kind |-> name, value |-> 0]

\* The loop of EveList::read with n events to go; unit_no and kind are one
\* byte each
RECURSIVE EveListReadLoop(_, _, _, _)
EveListReadLoop(r, n, absolute, eves) ==
    LET At(cur) == [r EXCEPT !.cur = cur]
        Push(c, uk, v, p) ==
            IF p.err # "Ok" THEN ReadResult(p.err, r, eves)
            ELSE EveListReadLoop(At(v.cur), n - 1, absolute + U32ToInt(c.val),
                                 Append(eves, [tick |-> absolute + U32ToInt(c.val),
                                               unit |-> uk.bytes[1], kind |-> p.kind,
                                               value |-> p.value]))
        Value(c, uk, v) ==
            IF ~c.ok \/ ~uk.ok \/ ~v.ok THEN ReadResult("Data", r, eves)
            ELSE Push(c, uk, v, read_payload(uk.bytes[2], v.val))
        Kind(c, uk) == Value(c, uk, next_varint(At(uk.rd.cur)))
        Unit(c) == Kind(c, ReaderNext(At(c.cur), 2))
    IN  IF n = 0 THEN ReadResult("Ok", r, eves) ELSE Unit(next_varint(r))

\* EveList::read: the list and its ser_size
EveListRead(r) ==
    LET List(size, l) ==
            IF l.err # "Ok" THEN ReadResult(l.err, r, <<>>)
            ELSE ReadResult("Ok", l.rd, [eves |-> l.val, ser_size |-> FromLeBytes(size.bytes)])
        Events(size, eve_num) ==
            IF ~size.ok \/ ~eve_num.ok THEN ReadResult("Data", r, <<>>)
            ELSE List(size, EveListReadLoop(eve_num.rd, U32ToInt(FromLeBytes(eve_num.bytes)),
                                            0, <<>>))
        Num(size) == Events(size, ReaderNext(size.rd, 4))
    IN  Num(ReaderNext(r, 4))


\* const MAX_UNITS: u16 = 50, the capacity of Units; Delays and Overdrives
\* are ArrayVecs of 4 and of 2
MAX_UNITS == 50
DelaysCap == 4
OverdrivesCap == 2

\* `f32 as u8`: truncated towards zero and saturated
F32AsU8(x) == Clamp(RTrunc(x), 0, 255)

\* What read_tune_items works on: the song, herd and instructions that
\* read_song made.  The rate read_song is given is small, to keep the
\* buffers rebuild_tones allocates short.
NewProject(out_sample_rate) ==
    [song |-> [text |-> [name |-> <<>>, comment |-> <<>>],
               master |-> [timing |-> DefaultTiming,
                           loop_points |-> [repeat |-> 0, last |-> 0], meas_num |-> 1],
               events |-> <<>>, ser_size |-> U32(0, 0),
               fmt |-> [ver |-> "V5", kind |-> "Collage", exe_ver |-> 0, dummy |-> 0]],
     herd |-> [end |-> FALSE, loop_ |-> FALSE, smp_smooth |-> 0, smp_count |-> 0,
               smp_start |-> 0, smp_end |-> 0, smp_repeat |-> 0, smp_stride |-> RInt(0),
               time_pan_index |-> 0, evt_idx |-> 0,
               units |-> <<>>, unit_names |-> <<>>, delays |-> <<>>, overdrives |-> <<>>],
     ins |-> [out_sample_rate |-> out_sample_rate, voices |-> <<>>,
              samples_per_tick |-> RInt(0)]]

\* fn read_delay: the delay pushed on delays; a group above 255 makes the
\* unwrap panic, and so does a push on a full ArrayVec
read_delay(r, delays) ==
    LET Delay(size, d) ==
            IF ~size.ok THEN ReadResult("Data", r, delays)
            ELSE IF FromLeBytes(size.bytes) # U32(0, 12) THEN ReadResult("FmtUnknown", r, delays)
            ELSE IF ~d.ok THEN ReadResult("Data", r, delays)
            ELSE IF d.bytes[1] + 256 * d.bytes[2] > 2 THEN ReadResult("FmtUnknown", r, delays)
            ELSE IF d.bytes[4] # 0 THEN ReadResult("PanicTryFrom", r, delays)
            ELSE IF Len(delays) >= DelaysCap THEN ReadResult("PanicCapacity", r, delays)
            ELSE ReadResult("Ok", d.rd,
                    Append(delays,
                        [unit |-> <<"Beat", "Meas", "Second">>[d.bytes[1] + 1],
                         group |-> d.bytes[3],
                         rate |-> F32AsU8(f32_from_bits(FromLeBytes(SubSeq(d.bytes, 5, 8)))),
                         freq |-> f32_from_bits(FromLeBytes(SubSeq(d.bytes, 9, 12))),
                         offset |-> 0, bufs |-> <<<<>>, <<>>>>]))
        Io(size) == Delay(size, ReaderNext(size.rd, 12))
    IN  Io(ReaderNext(r, 4))

\* fn read_overdrive: both reads are unwrapped, the size is not looked at
read_overdrive(r) ==
    LET Overdrive(size, o) ==
            IF ~size.ok \/ ~o.ok THEN ReadResult("PanicUnwrap", r, <<>>)
            ELSE LET cut == f32_from_bits(FromLeBytes(SubSeq(o.bytes, 5, 8)))
                     amp == f32_from_bits(FromLeBytes(SubSeq(o.bytes, 9, 12)))
                 IN  IF o.bytes[1] + 256 * o.bytes[2] # 0 THEN ReadResult("FmtUnknown", r, <<>>)
                     ELSE IF ~(RGeq(cut, RInt(50)) /\ RGeq(Rat(999, 10), cut))
                          THEN ReadResult("FmtUnknown", r, <<>>)
                     ELSE IF ~(RGeq(amp, Rat(1, 10)) /\ RGeq(RInt(8), amp))
                          THEN ReadResult("FmtUnknown", r, <<>>)
                     ELSE IF o.bytes[4] # 0 THEN ReadResult("PanicTryFrom", r, <<>>)
                     ELSE ReadResult("Ok", o.rd,
                             [on |-> TRUE, group |-> o.bytes[3], cut_percent |-> cut,
                              amp_mul |-> amp, cut_16bit_top |-> 0])
        Io(size) == Overdrive(size, ReaderNext(size.rd, 16))
    IN  Io(ReaderNext(r, 4))

\* fn read_unit: the names of the units, one of them set
read_unit(r, unit_names) ==
    LET Unit(size, u) ==
            IF ~size.ok THEN ReadResult("Data", r, unit_names)
            ELSE IF FromLeBytes(size.bytes) # U32(0, 20) THEN ReadResult("FmtUnknown", r, unit_names)
            ELSE IF ~u.ok THEN ReadResult("Data", r, unit_names)
            ELSE IF u.bytes[3] + 256 * u.bytes[4] # 0 THEN ReadResult("FmtUnknown", r, unit_names)
            ELSE IF u.bytes[2] # 0 \/ u.bytes[1] >= Len(unit_names)
                 THEN ReadResult("FmtUnknown", r, unit_names)
            ELSE ReadResult("Ok", u.rd,
                    [unit_names EXCEPT ![u.bytes[1] + 1] = NameOf(SubSeq(u.bytes, 5, 20))])
        Io(size) == Unit(size, ReaderNext(size.rd, 20))
    IN  Io(ReaderNext(r, 4))

\* fn read_assist_voice: the voices, one of them named; indexing voices
\* past their end panics
read_assist_voice(r, voices) ==
    LET Assist(size, a) ==
            IF ~size.ok THEN ReadResult("Data", r, voices)
            ELSE IF FromLeBytes(size.bytes) # U32(0, 20) THEN ReadResult("FmtUnknown", r, voices)
            ELSE IF ~a.ok THEN ReadResult("Data", r, voices)
            ELSE IF a.bytes[2] # 0 THEN ReadResult("FmtUnknown", r, voices)
            ELSE IF a.bytes[1] >= Len(voices) THEN ReadResult("PanicIndex", r, voices)
            ELSE ReadResult("Ok", a.rd,
                    [voices EXCEPT ![a.bytes[1] + 1].name = NameOf(SubSeq(a.bytes, 5, 20))])
        Io(size) == Assist(size, ReaderNext(size.rd, 20))
    IN  Io(ReaderNext(r, 4))

\* fn read_vec
read_vec(r) ==
    LET Vec(size, v) ==
            IF ~size.ok \/ ~v.ok THEN ReadResult("Data", r, <<>>)
            ELSE ReadResult("Ok", v.rd, v.bytes)
        Fill(size) ==
            IF ~size.ok THEN ReadResult("Data", r, <<>>)
            ELSE Vec(size, ReaderNext(size.rd, U32ToInt(FromLeBytes(size.bytes))))
    IN  Fill(ReaderNext(r, 4))

\* Voice::read_mate_pcm: IoPcm is 24 bytes, of which the bytes at 9, 14 and
\* 15 are padding; data_size is kept small in the files read here
read_mate_pcm(r) ==
    LET Voice(p, bps, data_size, smp) ==
            IF ~smp.ok THEN ReadResult("Data", r, <<>>)
            ELSE ReadResult("Ok", smp.rd,
                    [ch |-> p.bytes[9], bps |-> bps, sps |-> p.bytes[13] + 256 * p.bytes[14],
                     smp |-> smp.bytes, flags |-> FromLeBytes(SubSeq(p.bytes, 5, 8)),
                     basic_key |-> p.bytes[3] + 256 * p.bytes[4],
                     tuning |-> f32_from_bits(FromLeBytes(SubSeq(p.bytes, 17, 20))),
                     name |-> NoName])
        Create(p, bps, data_size) ==
            \* PcmData::create: sample_num * bps * ch / 8 bytes
            Voice(p, bps, data_size,
                  ReaderNext(p.rd, ((data_size \div ((bps \div 8) * p.bytes[9]))
                                    * bps * p.bytes[9]) \div 8))
        Pcm(size, p) ==
            IF ~size.ok \/ ~p.ok THEN ReadResult("Data", r, <<>>)
            ELSE IF p.bytes[11] + 256 * p.bytes[12] \notin {8, 16}
                 THEN ReadResult("FmtUnknown", r, <<>>)
            ELSE IF p.bytes[9] \notin {1, 2} THEN ReadResult("FmtUnknown", r, <<>>)
            ELSE Create(p, p.bytes[11] + 256 * p.bytes[12],
                        U32ToInt(FromLeBytes(SubSeq(p.bytes, 21, 24))))
        Io(size) == Pcm(size, ReaderNext(size.rd, 24))
    IN  Io(ReaderNext(r, 4))


\* One turn of the `while !end` loop of read_tune_items after its tag was
\* read, and the turns after it.  matePTV, matePTN and mateOGGV voices are
\* not modelled: no file read here has one.
RECURSIVE read_tune_items(_, _)
TuneItem(tag, r, st) ==
    LET Then(res, st2) ==
            IF res.err # "Ok" THEN ReadResult(res.err, r, st) ELSE read_tune_items(res.rd, st2)
        NumUnit(res) ==
            IF res.err = "Ok" /\ Len(st.herd.units) + res.val > MAX_UNITS
            THEN ReadResult("PanicCapacity", r, st)
            ELSE Then(res, [st EXCEPT !.herd.units = @ \o [i \in 1..res.val |-> NewUnit],
                                      !.herd.unit_names = @ \o [i \in 1..res.val |-> NoName]])
        Master(res) == Then(res, [st EXCEPT !.song.master = res.val])
        Events(res) == Then(res, [st EXCEPT !.song.events = res.val.eves,
                                            !.song.ser_size = res.val.ser_size])
        Voice(res) == Then(res, [st EXCEPT !.ins.voices = Append(@, res.val)])
        Delay(res) == Then(res, [st EXCEPT !.herd.delays = res.val])
        Overdrive(res) ==
            IF res.err = "Ok" /\ Len(st.herd.overdrives) >= OverdrivesCap
            THEN ReadResult("PanicCapacity", r, st)
            ELSE Then(res, [st EXCEPT !.herd.overdrives = Append(@, res.val)])
        Name(res) == Then(res, [st EXCEPT !.song.text.name = res.val])
        Comment(res) == Then(res, [st EXCEPT !.song.text.comment = res.val])
        AssistVoice(res) == Then(res, [st EXCEPT !.ins.voices = res.val])
        AssistUnit(res) == Then(res, [st EXCEPT !.herd.unit_names = res.val])
    IN  CASE tag = "None" -> ReadResult("FmtUnknown", r, st)
          [] tag = "AntiOPER" -> ReadResult("AntiOpreation", r, st)
          [] tag = "NumUNIT" -> NumUnit(read_unit_num(r))
          [] tag = "MasterV5" -> Master(read_v5(r))
          [] tag = "EventV5" -> Events(EveListRead(r))
          [] tag \in {"MatePCM", "V1Pcm"} -> Voice(read_mate_pcm(r))
          [] tag \in {"MatePTV", "MatePTN", "MateOGGV"} -> ReadResult("Unmodelled", r, st)
          [] tag = "EffeDELA" -> Delay(read_delay(r, st.herd.delays))
          [] tag = "EffeOVER" -> Overdrive(read_overdrive(r))
          [] tag = "TextNAME" -> Name(read_vec(r))
          [] tag = "TextCOMM" -> Comment(read_vec(r))
          [] tag = "AssiWOIC" -> AssistVoice(read_assist_voice(r, st.ins.voices))
          [] tag = "AssiUNIT" -> AssistUnit(read_unit(r, st.herd.unit_names))
          [] tag \in {"PxtoneND", "V1End"} -> ReadResult("Ok", r, st)
          [] OTHER -> ReadResult("OldUnsupported", r, st)

\* fn read_tune_items
read_tune_items(r, st) ==
    LET Item(code) ==
            IF ~code.ok THEN ReadResult("Data", r, st)
            ELSE TuneItem(from_code(code.bytes), code.rd, st)
    IN  Item(ReaderNext(r, 8))

\* herd::io::read
io_read(data, st) ==
    LET Items(fmt) ==
            IF fmt.err # "Ok" THEN ReadResult(fmt.err, fmt.rd, st)
            ELSE read_tune_items(fmt.rd, [st EXCEPT !.song.fmt = fmt.val])
    IN  Items(read_version([data |-> data, cur |-> 0]))

\* pub fn read_song: Err(e) as err = e, an abort as one of Panics, and on "Ok"
\* the (Song, Herd, MooInstructions) returned
read_song(data, out_sample_rate) ==
    LET Built(res) ==
            IF res.err # "Ok" THEN [err |-> res.err]
            ELSE LET sng == recalculate_length(res.val.song)
                 IN  [err |-> "Ok", song |-> sng, ins |-> res.val.ins,
                      herd |-> rebuild_tones(res.val.herd, res.val.ins, sng.master)]
    IN  Built(io_read(data, NewProject(out_sample_rate)))


-----------------------------------------------------------------------------
(* Writing: herd/io.rs, master.rs, event.rs, voice/io.rs *)

\* u16::to_le_bytes
U16Le(n) == <<n % 256, n \div 256>>

\* A name in a field of n bytes, zero-filled
NameField(name, n) == [i \in 1..n |-> IF i <= Len(name) THEN name[i] ELSE 0]

\* fn write_version: <<>> is Err(UnsupportedFmt)
write_version(info) ==
    IF info.ver = "V1" /\ info.kind = "Tune" THEN <<>>
    ELSE (CHOOSE c \in VersionCodes : c.ver = info.ver /\ c.kind = info.kind).code
         \o U16Le(info.exe_ver) \o U16Le(info.dummy)

\* Master::write_v5
write_v5(master) ==
    ToLeBytes(U32(0, 15)) \o U16Le(master.timing.ticks_per_beat)
    \o <<master.timing.beats_per_meas>> \o ToLeBytes(f32_to_bits(master.timing.bpm))
    \o ToLeBytes(CastUnsigned(meas_to_tick(master.loop_points.repeat, master.timing)))
    \o ToLeBytes(CastUnsigned(IF master.loop_points.last = 0 THEN 0
                              ELSE meas_to_tick(master.loop_points.last, master.timing)))

\* `let (kind, value): (u8, u32) = match &eve.payload { .. }` of
\* EveList::write; an i16 goes to u16 and from there to u32
write_payload(eve) ==
    CASE eve.kind = "Null" -> <<0, U32(0, 0)>>
      [] eve.kind = "On" -> <<1, CastUnsigned(eve.value)>>
      [] eve.kind = "Key" -> <<2, CastUnsigned(eve.value)>>
      [] eve.kind = "PanVol" -> <<3, U32(0, eve.value)>>
      [] eve.kind = "Velocity" -> <<4, U32(0, eve.value % 65536)>>
      [] eve.kind = "Volume" -> <<5, U32(0, eve.value % 65536)>>
      [] eve.kind = "Portament" -> <<6, CastUnsigned(eve.value)>>
      [] eve.kind = "BeatClock" -> <<7, U32(0, 0)>>
      [] eve.kind = "BeatTempo" -> <<8, U32(0, 0)>>
      [] eve.kind = "BeatNum" -> <<9, U32(0, 0)>>
      [] eve.kind = "Repeat" -> <<10, U32(0, 0)>>
      [] eve.kind = "Last" -> <<11, U32(0, 0)>>
      [] eve.kind = "SetVoice" -> <<12, U32(0, eve.value)>>
      [] eve.kind = "SetGroup" -> <<13, U32(0, eve.value)>>
      [] eve.kind = "Tuning" -> <<14, f32_to_bits(eve.value)>>
      [] eve.kind = "PanTime" -> <<15, U32(0, eve.value)>>

\* The loop of EveList::write from event i on: the bytes pushed and the
\* events counted.  The lists written here are in tick order, so that
\* eve.tick - absolute does not underflow.
RECURSIVE EveListWriteLoop(_, _, _)
EveListWriteLoop(eves, i, absolute) ==
    IF i > Len(eves) THEN [bytes |-> <<>>, eve_num |-> 0]
    ELSE IF eves[i].kind = "PtcowDebug" THEN EveListWriteLoop(eves, i + 1, absolute)
    ELSE LET Rest(kv, rest) ==
                 [bytes |-> int_to_varint(CastUnsigned(eves[i].tick - absolute))
                            \o <<eves[i].unit, kv[1]>> \o int_to_varint(kv[2]) \o rest.bytes,
                  eve_num |-> rest.eve_num + 1]
         IN  Rest(write_payload(eves[i]), EveListWriteLoop(eves, i + 1, eves[i].tick))

\* EveList::write
EveListWrite(eves, ser_size) ==
    LET Out(l) == ToLeBytes(ser_size) \o ToLeBytes(CastUnsigned(l.eve_num)) \o l.bytes
    IN  Out(EveListWriteLoop(eves, 1, 0))

\* Text::name_w and Text::comment_w, with write_shift_jis
text_w(tag, text) ==
    IF text = <<>> THEN <<>>
    ELSE to_code[tag] \o ToLeBytes(CastUnsigned(Len(text))) \o text

\* fn write_delay, after its tag
write_delay(delay) ==
    to_code.EffeDELA \o ToLeBytes(U32(0, 12))
    \o U16Le(CASE delay.unit = "Beat" -> 0 [] delay.unit = "Meas" -> 1 [] OTHER -> 2)
    \o U16Le(delay.group) \o ToLeBytes(f32_to_bits(RInt(delay.rate)))
    \o ToLeBytes(f32_to_bits(delay.freq))

\* fn write_overdrive, after its tag
write_overdrive(ovr) ==
    to_code.EffeOVER \o ToLeBytes(U32(0, 16)) \o U16Le(0) \o U16Le(ovr.group)
    \o ToLeBytes(f32_to_bits(ovr.cut_percent)) \o ToLeBytes(f32_to_bits(ovr.amp_mul))
    \o ToLeBytes(f32_to_bits(RInt(0)))

\* fn write_assist_voice
write_assist_voice(voice, idx) ==
    to_code.AssiWOIC \o ToLeBytes(U32(0, 20)) \o U16Le(idx) \o U16Le(0)
    \o NameField(voice.name, 16)

\* fn write_voice of a PCM voice, with Voice::write_mate_pcm: ptr::copy takes
\* the three padding bytes of IoPcm along, which nothing has written; pad
\* stands for the values they happen to have
write_voice(voice, idx, pad) ==
    to_code.MatePCM \o ToLeBytes(CastUnsigned(24 + Len(voice.smp)))
    \o U16Le(0) \o U16Le(voice.basic_key) \o ToLeBytes(voice.flags)
    \o <<voice.ch, pad[1]>> \o U16Le(voice.bps) \o U16Le(voice.sps) \o <<pad[2], pad[3]>>
    \o ToLeBytes(f32_to_bits(voice.tuning)) \o ToLeBytes(CastUnsigned(Len(voice.smp)))
    \o voice.smp
    \o (IF voice.name # NoName THEN write_assist_voice(voice, idx) ELSE <<>>)

\* fn write_unit_num
write_unit_num(h) ==
    to_code.NumUNIT \o ToLeBytes(U32(0, 4)) \o U16Le(Min(Len(h.units), MAX_UNITS)) \o U16Le(0)

\* fn write_units
RECURSIVE write_units(_, _)
write_units(h, i) ==
    IF i >= Min(Len(h.unit_names), MAX_UNITS) THEN <<>>
    ELSE (IF h.unit_names[i + 1] = NoName THEN <<>>
          ELSE to_code.AssiUNIT \o ToLeBytes(U32(0, 20)) \o U16Le(i) \o U16Le(0)
               \o NameField(h.unit_names[i + 1], 16))
         \o write_units(h, i + 1)

\* q[1] \o q[2] \o ..
RECURSIVE Concat(_)
Concat(q) == IF q = <<>> THEN <<>> ELSE Head(q) \o Concat(Tail(q))

\* fn write_tune_items
write_tune_items(sng, h, mi, pad) ==
    to_code.MasterV5 \o write_v5(sng.master)
    \o to_code.EventV5 \o EveListWrite(sng.events, sng.ser_size)
    \o text_w("TextNAME", sng.text.name) \o text_w("TextCOMM", sng.text.comment)
    \o Concat([i \in 1..Len(h.delays) |-> write_delay(h.delays[i])])
    \o Concat([i \in 1..Len(h.overdrives) |-> write_overdrive(h.overdrives[i])])
    \o Concat([i \in 1..Len(mi.voices) |-> write_voice(mi.voices[i], i - 1, pad)])
    \o write_unit_num(h) \o write_units(h, 0)

\* herd::io::write, which is serialize_project: <<>> is Err(UnsupportedFmt)
serialize_project(sng, h, mi, pad) ==
    IF write_version(sng.fmt) = <<>> THEN <<>>
    ELSE write_version(sng.fmt) \o write_tune_items(sng, h, mi, pad)
         \o to_code.PxtoneND \o <<0, 0, 0, 0>>


-----------------------------------------------------------------------------
(* The files read_song is given *)

\* The bits of the f32 values the files carry
F32Bits(n, d) == ToLeBytes(f32_to_bits(Rat(n, d)))

\* The version block of a V5 collage
HeadBlock == (CHOOSE c \in VersionCodes : c.ver = "V5" /\ c.kind = "Collage").code
             \o <<1, 0, 0, 0>>

\* A MasterV5 block at 1323000 beats a minute, one tick a beat and two beats
\* a measure: a beat lasts two frames at 44100 Hz
MasterBlock(ticks_per_beat, beats_per_meas, repeat_tick, last_tick) ==
    to_code.MasterV5 \o <<15, 0, 0, 0>> \o <<ticks_per_beat, 0, beats_per_meas>>
    \o F32Bits(1323000, 1) \o <<repeat_tick, 0, 0, 0>> \o <<last_tick, 0, 0, 0>>

\* An Event V5 block; an event is <<clock, unit, kind>> \o the varint of its value
EventBlock(recs) ==
    to_code.EventV5 \o <<4 + Len(Concat(recs)), 0, 0, 0>> \o <<Len(recs), 0, 0, 0>>
    \o Concat(recs)

\* An effeDELA block (IoDelay) and an effeOVER block (IoOverDrv)
DelayBlock(unit, group, rate, freq) ==
    to_code.EffeDELA \o <<12, 0, 0, 0>> \o <<unit, 0, group, 0>> \o rate \o freq
OverdriveBlock(group, cut, amp) ==
    to_code.EffeOVER \o <<16, 0, 0, 0>> \o <<0, 0, group, 0>> \o cut \o amp \o <<0, 0, 0, 0>>

\* A PCM voice block under the tag given (IoPcm, then the samples): one
\* channel of 8 bits at 8000 Hz, the padding bytes zero
PcmBlock(tag, smp) ==
    to_code[tag] \o <<24 + Len(smp), 0, 0, 0>>
    \o <<0, 0>> \o U16Le(DEFAULT_BASICKEY) \o <<0, 0, 0, 0>> \o <<1, 0>> \o <<8, 0>>
    \o U16Le(8000) \o <<0, 0>> \o F32Bits(1, 1) \o <<Len(smp), 0, 0, 0>> \o smp

\* assiWOIC and assiUNIT blocks (AssistVoice, IoUnit), a num UNIT block
\* (NumUnit), a text block and the end of the file
AssistBlock(tag, idx, name) ==
    to_code[tag] \o <<20, 0, 0, 0>> \o <<idx, 0, 0, 0>> \o NameField(name, 16)
NumUnitBlock(num) == to_code.NumUNIT \o <<4, 0, 0, 0>> \o <<num, 0, 0, 0>>
TextBlock(tag, text) == to_code[tag] \o <<Len(text), 0, 0, 0>> \o text
EndBlock == to_code.PxtoneND \o <<0, 0, 0, 0>>

\* A delay of one beat at rate 50 and an overdrive of cut 50 and gain 2
Delay50 == DelayBlock(0, 0, F32Bits(50, 1), F32Bits(1, 1))
Overdrive50 == OverdriveBlock(1, F32Bits(50, 1), F32Bits(2, 1))

\* Events of a song of two measures: a voice, a key, a velocity, a note
SongEvents == << <<0, 0, 12, 0>>, <<0, 0, 2, 96>>, <<1, 0, 4, 100>>, <<0, 0, 1, 2>> >>

\* A file with every kind of block the reader is modelled for, in the order
\* the format is written in
FullFile(master, events, delays, overdrives) ==
    HeadBlock \o master \o events \o TextBlock("TextNAME", <<115, 111, 110, 103>>)
    \o TextBlock("TextCOMM", <<99>>) \o delays \o overdrives
    \o PcmBlock("MatePCM", <<128, 255>>) \o AssistBlock("AssiWOIC", 0, <<118>>)
    \o NumUnitBlock(2) \o AssistBlock("AssiUNIT", 0, <<117>>)
    \o AssistBlock("AssiUNIT", 1, <<117, 50>>) \o EndBlock

\* A file with a master, events and the blocks given before its units
ShortFile(master, events, blocks) ==
    HeadBlock \o master \o EventBlock(events) \o blocks \o NumUnitBlock(1)
    \o AssistBlock("AssiUNIT", 0, <<117>>) \o EndBlock

\* Well-formed V5 files: the loop points are on measure boundaries (a
\* measure is two ticks), the values are the ones the format stores
ValidFiles ==
    { FullFile(MasterBlock(1, 2, r, l), EventBlock(SongEvents), d, o) :
         r \in {0, 2}, l \in {0, 4}, d \in {<<>>, Delay50}, o \in {<<>>, Overdrive50} }
    \cup { ShortFile(MasterBlock(1, 2, r, 0), e, <<>>) :
             r \in {0, 2, 4}, e \in {<<>>, SongEvents} }

\* Files the reader takes that a writer of the format would not have made:
\* a loop point inside a measure, a fractional delay rate, a value on an
\* event that has none, a velocity of -1 as 32 bits
LooseFiles ==
    { ShortFile(MasterBlock(1, 2, 1, 3), SongEvents, <<>>),
      ShortFile(MasterBlock(1, 2, 0, 0), SongEvents,
                DelayBlock(2, 0, F32Bits(101, 2), F32Bits(0, 1))),
      ShortFile(MasterBlock(1, 2, 0, 0), << <<0, 0, 0, 5>>, <<1, 0, 7, 5>> >>, <<>>),
      ShortFile(MasterBlock(1, 2, 0, 0),
                << <<0, 0, 4>> \o int_to_varint(U32(65535, 65535)) >>, <<>>) }

\* A file where the tag loop reaches a tag of the older formats; the PCM
\* tag of V1 is followed by a voice
LegacyFile(t) ==
    ShortFile(MasterBlock(1, 2, 0, 0), SongEvents,
              IF t = "V1Pcm" THEN PcmBlock(t, <<128>>) ELSE to_code[t] \o <<0, 0, 0, 0>>)

\* n copies of a block
Repeated(block, n) == Concat([i \in 1..n |-> block])

\* Files whose blocks go past a capacity of the herd, and files that fill it
CapFiles ==
    { ShortFile(MasterBlock(1, 2, 0, 0), <<>>, Repeated(Delay50, n)) : n \in {4, 5} }
    \cup { ShortFile(MasterBlock(1, 2, 0, 0), <<>>, Repeated(Overdrive50, n)) : n \in {2, 3} }
    \cup { ShortFile(MasterBlock(1, 2, 0, 0), <<>>, NumUnitBlock(n) \o NumUnitBlock(m)) :
             n \in {26, 49, 51}, m \in {23, 26} }

\* The file that is cut short: every prefix that ends before the end tag does
CutBase == FullFile(MasterBlock(1, 2, 0, 0), EventBlock(SongEvents), Delay50, Overdrive50)
CutFiles == { SubSeq(CutBase, 1, n) : n \in 0..(Len(CutBase) - 5) }

\* Values the padding bytes of a written IoPcm may have
Pads == { <<0, 0, 0>>, <<0, 205, 171>> }

\* The calls: read_song on the bytes of a file at the native rate ...
ReadSongCall ==
    /\ load.stage = "given"
    /\ load' = [load EXCEPT !.stage = "read",
                            !.res = read_song(load.data, NATIVE_SAMPLE_RATE)]
    /\ UNCHANGED codecVars
    /\ UNCHANGED playVars

\* The most edits of a song that was read
MaxEdits == 2

\* The caller changes the loop points, the events or the timing of the song
\* it was given, all of them public fields, and calls
\* Song::recalculate_length as its documentation asks
\* The events an edit leaves: the ones there are, none, or one more note
\* after the last
EditedEvents(eves) ==
    {eves, <<>>}
    \cup { Append(eves, Eve((IF eves = <<>> THEN 0 ELSE eves[Len(eves)].tick) + g, 0, "On", d)) :
             g \in {0, 3}, d \in {1, 4} }

EditSong(repeat, last, timing) ==
    /\ load.stage \in {"read", "edited"}
    /\ load.res.err = "Ok"
    /\ load.edits < MaxEdits
    /\ \E eves \in EditedEvents(load.res.song.events) :
          load' = [load EXCEPT
                    !.stage = "edited",
                    !.edits = @ + 1,
                    !.res.song = recalculate_length(
                        [@ EXCEPT !.master.loop_points = [repeat |-> repeat, last |-> last],
                                  !.master.timing = timing,
                                  !.events = eves])]
    /\ UNCHANGED codecVars
    /\ UNCHANGED playVars

\* ... and serialize_project on what it returned
SerializeCall(pad) ==
    /\ load.stage = "read"
    /\ load.res.err = "Ok"
    /\ load' = [load EXCEPT !.stage = "written",
                            !.out = serialize_project(load.res.song, load.res.herd,
                                                      load.res.ins, pad)]
    /\ UNCHANGED codecVars
    /\ UNCHANGED playVars

(* SpecFile: a file is read and what was read is written *)

GivenFile(kind, data) ==
    [stage |-> "given", kind |-> kind, data |-> data, res |-> [err |-> "none"], out |-> <<>>,
     edits |-> 0]

InitFile ==
    /\ rd = [data |-> <<>>, cur |-> 0]
    /\ vres = NoResult
    /\ out = <<>>
    /\ written = <<>>
    /\ readback = <<>>
    /\ tv = NoTest
    /\ song = NoSong
    /\ ins = NoSong
    /\ herd = NoSong
    /\ pc = "none"
    /\ call = NoCall
    /\ ret = "none"
    /\ mix = NoMix
    /\ pass = NoPass
    /\ load \in {GivenFile("valid", d) : d \in ValidFiles}
          \cup {GivenFile("loose", d) : d \in LooseFiles}
          \cup {GivenFile(t, LegacyFile(t)) : t \in LegacyTags}
          \cup {GivenFile("cap", d) : d \in CapFiles}
          \cup {GivenFile("cut", d) : d \in CutFiles}

NextFile ==
    \/ ReadSongCall
    \/ \E pad \in Pads : SerializeCall(pad)
    \/ \E repeat \in {0, 1, 3}, last \in {0, 2}, timing \in {TimingSlow, TimingFast} :
          EditSong(repeat, last, timing)

SpecFile == InitFile /\ [][NextFile]_vars


-----------------------------------------------------------------------------
(* Claims on the file format *)

\* C11: a well-formed V5 file that read_song accepts is written back by
\* serialize_project byte for byte.
C11_RoundTrip ==
    (load.stage = "written" /\ load.kind = "valid") => load.out = load.data

C14_Capacity ==
    load.stage = "read" =>
        /\ load.res.err # "PanicCapacity"
        /\ load.res.err = "Ok" =>
              /\ Len(load.res.herd.units) <= MAX_UNITS
              /\ Len(load.res.herd.delays) <= DelaysCap
              /\ Len(load.res.herd.overdrives) <= OverdrivesCap
        /\ (load.kind = "cap" /\ load.res.err # "Ok") =>
              load.res.err \in {"FmtUnknown", "FmtNewer"}

\* C15: when the bytes end before the end tag, wherever they end, read_song
\* returns Err(Data).
C15_PrematureEnd ==
    (load.stage = "read" /\ load.kind = "cut") => load.res.err = "Data"


-----------------------------------------------------------------------------
(* SpecEvents: an event list is written by EveList::write and the bytes are
   read by EveList::read *)

\* The longest list written
MaxListLen == 2

\* The payloads of the lists: every kind that carries a value, with the
\* signed ones on both sides of zero, an event without a value, and a debug
\* event
Payloads ==
    { <<"On", 2>>, <<"Key", DEFAULT_KEY>>, <<"Key", -256>>, <<"PanVol", 64>>,
      <<"Velocity", DEFAULT_VELOCITY>>, <<"Velocity", -1>>, <<"Volume", -32768>>,
      <<"Portament", 300>>, <<"SetVoice", 1>>, <<"SetGroup", 1>>, <<"Tuning", Rat(1, 2)>>,
      <<"PanTime", 63>>, <<"Null", 0>>, <<"Repeat", 0>>, <<"PtcowDebug", 7>> }

\* The ticks between two events of a list
Gaps == {0, 200}

\* The lists of at most n events that start at or after the tick given, in
\* tick order
RECURSIVE EventLists(_, _)
EventLists(n, tick) ==
    IF n = 0 THEN {<<>>}
    ELSE {<<>>} \cup
         UNION { { <<Eve(tick + g, 1, p[1], p[2])>> \o l : l \in EventLists(n - 1, tick + g) } :
                    g \in Gaps, p \in Payloads }

\* eves without its PtcowDebug events
NonDebug(eves) == SelectSeq(eves, LAMBDA e : e.kind # "PtcowDebug")

\* EveList::write on a list, into an empty Vec
EveListWriteCall ==
    /\ load.stage = "list"
    /\ load' = [load EXCEPT !.stage = "written",
                            !.out = EveListWrite(load.eves, U32(0, 0))]
    /\ UNCHANGED codecVars
    /\ UNCHANGED playVars

\* EveList::read on a Reader over the bytes written
EveListReadCall ==
    /\ load.stage = "written"
    /\ load' = [load EXCEPT !.stage = "read",
                            !.res = EveListRead([data |-> load.out, cur |-> 0])]
    /\ UNCHANGED codecVars
    /\ UNCHANGED playVars

InitEvents ==
    /\ rd = [data |-> <<>>, cur |-> 0]
    /\ vres = NoResult
    /\ out = <<>>
    /\ written = <<>>
    /\ readback = <<>>
    /\ tv = NoTest
    /\ song = NoSong
    /\ ins = NoSong
    /\ herd = NoSong
    /\ pc = "none"
    /\ call = NoCall
    /\ ret = "none"
    /\ mix = NoMix
    /\ pass = NoPass
    /\ load \in { [stage |-> "list", eves |-> l, out |-> <<>>, res |-> [err |-> "none"]] :
                     l \in EventLists(MaxListLen, 0) }

NextEvents ==
    \/ EveListWriteCall
    \/ EveListReadCall

SpecEvents == InitEvents /\ [][NextEvents]_vars

\* C12: EveList::read on what EveList::write wrote gives the list without
\* its debug events, in the same order and with the same ticks and payloads,
\* the negative keys, velocities and volumes among them, and the count
\* stored in the block is the number of events that are not debug events.
C12_EventRoundTrip ==
    load.stage = "read" =>
        /\ load.res.err = "Ok"
        /\ load.res.val.eves = NonDebug(load.eves)
        /\ FromLeBytes(SubSeq(load.out, 5, 8)) = U32(0, Len(NonDebug(load.eves)))


-----------------------------------------------------------------------------
(* Claims on the length of the song *)

\* The song that read_song returned, as the caller has it now
Loaded == load.stage \in {"read", "written", "edited"} /\ load.res.err = "Ok"

\* C16: after read_song and after every call of Song::recalculate_length,
\* meas_num measures reach to the last loop point and to the end of every
\* event (meas_num >= ceil(T / (ticks_per_beat * beats_per_meas))), the
\* repeat point is below meas_num and the last point, when there is one, is
\* at most meas_num.
C16_LengthInvariant ==
    Loaded =>
        LET m == load.res.song.master
            eves == load.res.song.events
            len == m.meas_num * m.timing.ticks_per_beat * m.timing.beats_per_meas
        IN  /\ m.loop_points.last * m.timing.ticks_per_beat * m.timing.beats_per_meas <= len
            /\ \A i \in 1..Len(eves) :
                  eves[i].tick + (IF eves[i].kind \in {"On", "Portament"} THEN eves[i].value
                                  ELSE 0) <= len
            /\ m.loop_points.repeat < m.meas_num
            /\ m.loop_points.last # 0 => m.loop_points.last <= m.meas_num

\* A song was edited twice, its notes reach into the fourth measure and its
\* last point is at the second.
C16_Witness ==
    /\ Loaded
    /\ load.stage = "edited"
    /\ load.edits = 2
    /\ load.res.song.master.meas_num >= 4
    /\ load.res.song.master.loop_points.last = 2
    /\ load.res.song.events # <<>>


-----------------------------------------------------------------------------
(* SpecEffects: the overdrives and the delays of a herd, frame by frame.
   What the units add to the group accumulators is drawn; the rest of the
   channel loop of next_sample and the delay increments are as in the code. *)

\* The most frames mixed
MaxFxFrames == 5

\* The accumulators of one channel with a in group 0, b in group 1
GroupSmps(a, b) == <<a, b, 0, 0, 0, 0, 0>>

\* What the units add in a frame, for channel 0 and for channel 1
FxInputs ==
    { <<GroupSmps(0, 0), GroupSmps(0, 0)>>,
      <<GroupSmps(45, 20000), GroupSmps(-45, -40000)>>,
      <<GroupSmps(20000, 5), GroupSmps(4, 16384)>> }

\* The delays and overdrives of the herds: a delay on group 0 of one beat or
\* half a beat, or one whose freq is 0, at rate 50 or 30; an overdrive on
\* group 1 that is on or off
FxDelays ==
    { [unit |-> "Beat", group |-> 0, rate |-> r, freq |-> RInt(f), offset |-> 0,
       bufs |-> <<<<>>, <<>>>>] : r \in {50, 30}, f \in {0, 1, 2} }
FxOverdrives == { [HalfOverdrive EXCEPT !.on = b] : b \in BOOLEAN }

\* The song the herds belong to: a beat is two frames
FxMaster == [timing |-> TimingSlow, loop_points |-> [repeat |-> 0, last |-> 0], meas_num |-> 1]

\* `for ovr in &mut herd.overdrives` and `for delay in &mut herd.delays` of
\* the channel loop, on the accumulators the units have filled
EffectsChannel(ovrs, delays, ch, group_smps) ==
    SuppleDelays(1, SuppleOverdrives(ovrs, 1, [g |-> group_smps, delays |-> delays,
                                               panic |-> FALSE]), ch)

\* What the log keeps of a frame: the accumulators of both channels before
\* the overdrives, after them and after the delays, and of the first delay
\* its offset and the buffer samples at the offset before and after
FxEntry(h, x, m0, m1) ==
    [x |-> x,
     od |-> [c \in 1..2 |-> SuppleOverdrives(h.overdrives, 1,
                               [g |-> x[c], delays |-> <<>>, panic |-> FALSE]).g],
     out |-> <<m0.g, m1.g>>,
     offset |-> h.delays[1].offset,
     len |-> Len(h.delays[1].bufs[1]),
     before |-> [c \in 1..2 |-> IF DelayHasSample(h.delays[1], c - 1)
                                THEN h.delays[1].bufs[c][h.delays[1].offset + 1] ELSE 0],
     after |-> [c \in 1..2 |-> IF DelayHasSample(h.delays[1], c - 1)
                               THEN m1.delays[1].bufs[c][h.delays[1].offset + 1] ELSE 0]]

\* One frame: both channels, then `for delay in &mut herd.delays
\* { delay.tone_increment(); }`
FxMix(h, x, m0, m1) ==
    /\ herd' = [h EXCEPT !.delays = [i \in 1..Len(m1.delays) |->
                                        delay_tone_increment(m1.delays[i])]]
    /\ pass' = [pass EXCEPT !.frames = @ + 1, !.log = Append(@, FxEntry(h, x, m0, m1))]

FxSecond(h, x, m0) == FxMix(h, x, m0, EffectsChannel(h.overdrives, m0.delays, 1, x[2]))

EffectsFrame(x) ==
    /\ pc = "effects"
    /\ pass.frames < MaxFxFrames
    /\ FxSecond(herd, x, EffectsChannel(herd.overdrives, herd.delays, 0, x[1]))
    /\ UNCHANGED <<song, ins, pc, call, ret, mix>>
    /\ UNCHANGED codecVars
    /\ UNCHANGED fileVars

\* The caller sets the freq of the delay, a public field, and calls
\* rebuild_tones
RebuildDelay(freq) ==
    /\ pc = "effects"
    /\ pass.rebuilds < 1
    /\ herd' = rebuild_tones([herd EXCEPT !.delays[1].freq = freq], ins, song.master)
    /\ pass' = [pass EXCEPT !.rebuilds = @ + 1, !.log = <<>>]
    /\ UNCHANGED <<song, ins, pc, call, ret, mix>>
    /\ UNCHANGED codecVars
    /\ UNCHANGED fileVars

\* The herds are as read_song leaves them: rebuild_tones has run
InitEffects ==
    /\ rd = [data |-> <<>>, cur |-> 0]
    /\ vres = NoResult
    /\ out = <<>>
    /\ written = <<>>
    /\ readback = <<>>
    /\ tv = NoTest
    /\ song = [master |-> FxMaster, events |-> <<>>]
    /\ ins = Instructions(<<>>)
    /\ herd \in { rebuild_tones([delays |-> <<d>>, overdrives |-> <<o>>],
                                Instructions(<<>>), FxMaster) :
                     d \in FxDelays, o \in FxOverdrives }
    /\ pc = "effects"
    /\ call = NoCall
    /\ ret = "none"
    /\ mix = NoMix
    /\ pass = [log |-> <<>>, frames |-> 0, rebuilds |-> 0]
    /\ load = NoLoad

\* The freq the caller sets before rebuild_tones: none, one beat, half a
\* beat, and one so small that the length comes out as 2^25
FxFreqs == {RInt(0), RInt(1), RInt(2), Rat(1, MAX_BUF_LEN)}

NextEffects ==
    \/ \E x \in FxInputs : EffectsFrame(x)
    \/ \E f \in FxFreqs : RebuildDelay(f)

SpecEffects == InitEffects /\ [][NextEffects]_vars


-----------------------------------------------------------------------------
(* Claims on the effects *)

\* C18: an overdrive that is on replaces the accumulator of its group by
\* trunc(clamp(group[g], -top, +top) * amp_mul), top being
\* trunc(32767 * (100 - cut_percent) / 100), and leaves the other six as
\* they are; one that is off changes nothing; with cut_percent 50 and
\* amp_mul 2, 20000 becomes 32766 and -40000 becomes -32766.
C18_Overdrive ==
    pc = "effects" =>
        LET o == herd.overdrives[1]
            g == o.group + 1
            top == (32767 * (100 - RTrunc(o.cut_percent))) \div 100
        IN  \A i \in 1..Len(pass.log), c \in 1..2 :
                LET x == pass.log[i].x[c]
                    od == pass.log[i].od[c]
                IN  /\ o.on => /\ od[g] = RTrunc(RMul(RInt(Clamp(x[g], -top, top)), o.amp_mul))
                               /\ \A k \in 1..GroupSamplesLen : k # g => od[k] = x[k]
                               /\ (o.cut_percent = RInt(50) /\ o.amp_mul = RInt(2)) =>
                                     /\ top = 16383
                                     /\ x[g] = 20000 => od[g] = 32766
                                     /\ x[g] = -40000 => od[g] = -32766
                    /\ ~o.on => od = x

\* A frame on which the overdrive turned -40000 into -32766 and another on
\* which it turned 20000 into 32766.
C18_Witness ==
    /\ pc = "effects"
    /\ herd.overdrives[1].on
    /\ \E i \in 1..Len(pass.log) :
          pass.log[i].x[2][2] = -40000 /\ pass.log[i].od[2][2] = -32766
    /\ \E i \in 1..Len(pass.log) :
          pass.log[i].x[1][2] = 20000 /\ pass.log[i].od[1][2] = 32766

\* The frames since the buffers of the delay were made hold an impulse: v
\* entered the group of the delay on channel c in the first of them, and
\* nothing in the n - 1 after it
Impulse(c, v, n) ==
    /\ Len(pass.log) >= n
    /\ pass.log[1].od[c][herd.delays[1].group + 1] = v
    /\ \A i \in 2..n : pass.log[i].od[c][herd.delays[1].group + 1] = 0
    /\ \A i \in 1..n : i <= pass.log[1].len => pass.log[i].before[c] = 0

\* C19: for a delay with buffers of length L > 0 and rate r on group g,
\* every frame does group[g] += buf[off] * r / 100 and buf[off] = group[g]
\* on each channel, in the integer arithmetic of the code, and leaves the
\* other groups as they are, and off moves on by one modulo L once a frame;
\* so an impulse x at frame 0 comes back as x * r / 100 at frame L and as
\* that times r / 100 at frame 2L, which for r = 50 is a half and a quarter.
C19_DelayRecurrence ==
    pc = "effects" =>
        LET d == herd.delays[1]
            g == d.group + 1
            n == Len(pass.log)
        IN  /\ \A i \in 1..n, c \in 1..2 :
                  LET e == pass.log[i]
                  IN  e.len > 0 =>
                        /\ e.out[c][g] = e.od[c][g] + TruncDiv(e.before[c] * d.rate, 100)
                        /\ e.after[c] = e.out[c][g]
                        /\ \A k \in 1..GroupSamplesLen : k # g => e.out[c][k] = e.od[c][k]
                        /\ (IF i < n THEN pass.log[i + 1].offset ELSE d.offset)
                               = (e.offset + 1) % e.len
            /\ \A c \in 1..2, v \in {45, -45, 20000, 4} :
                  LET L == Len(d.bufs[1])
                  IN  (L > 0 /\ Impulse(c, v, 2 * L + 1)) =>
                        /\ pass.log[L + 1].out[c][g] = TruncDiv(v * d.rate, 100)
                        /\ pass.log[2 * L + 1].out[c][g]
                               = TruncDiv(TruncDiv(v * d.rate, 100) * d.rate, 100)
                        /\ (d.rate = 50 /\ v = 20000) =>
                               /\ pass.log[L + 1].out[c][g] = 10000
                               /\ pass.log[2 * L + 1].out[c][g] = 5000

\* An impulse of 20000 went through a delay of two frames at rate 50: five
\* frames were mixed, the third gave 10000 and the fifth 5000.
C19_Witness ==
    /\ pc = "effects"
    /\ herd.delays[1].rate = 50
    /\ Len(herd.delays[1].bufs[1]) = 2
    /\ Impulse(1, 20000, 5)
    /\ pass.log[3].out[1][1] = 10000
    /\ pass.log[5].out[1][1] = 5000

\* C20: after Delay::rebuild with freq = 0, on a delay as loaded or on one
\* that was built before with another freq, tone_supple adds nothing to the
\* group of the delay on any later frame.
C20_ZeroFreqSilent ==
    (pc = "effects" /\ herd.delays[1].freq = RInt(0)) =>
        \A i \in 1..Len(pass.log), c \in 1..2 : pass.log[i].out[c] = pass.log[i].od[c]

-----------------------------------------------------------------------------
(* SpecOn: the events of a prepared song are dispatched one at a time *)

\* The longest note of the songs below, in ticks.
OnDurations == {1, 2, 4}

\* The events of the songs, in tick order: unit 0 is turned on for d ticks,
\* unit 1 is turned on during the note, and unit 0 is turned on again.
OnScore(d) ==
    << Eve(0, 0, "On", d), Eve(1, 1, "On", 1), Eve(2, 0, "Volume", 64),
       Eve(3, 0, "On", 1) >>

\* What read_song returned: unit 0 plays a voice without release
\* (VoiceLoud) or one with a release of two samples (VoiceEnv).
OnLoads ==
    { LET sng == ReadSong(t, 0, 0, eves)
          mi == Instructions(vs)
      IN  [song |-> sng, ins |-> mi, herd |-> ReadHerd(2, <<>>, <<>>, mi, sng.master)]
      : t \in {TimingSlow, TimingFast},
        vs \in {<<VoiceLoud, VoiceEnv>>, <<VoiceEnv, VoiceLoud>>},
        eves \in UNION { SubSeqs(OnScore(d), MaxEvents) \ {<<>>} : d \in OnDurations } }

\* Played to the end of the song, or to the end of its first measure.
OnPlans == { Plan("Sample", 0, <<>>, <<>>, FALSE), Plan("Sample", 0, <<1>>, <<>>, FALSE) }

\* One turn of the while loop of next_sample: the event at evt_idx is due
\* at the current tick `clock`, and do_next_event runs it.
DispatchEvent(clock) ==
    /\ pc = "dispatch"
    /\ herd.evt_idx < Len(song.events)
    /\ song.events[herd.evt_idx + 1].tick <= clock
    /\ pass.idx >= 0 => pass.clock <= clock
    /\ LET r == do_next_event(herd, ins, song, clock, ins.out_sample_rate)
       IN  /\ ~r.brk
           /\ herd' = r.h
    /\ pass' = [idx |-> herd.evt_idx, clock |-> clock, before |-> herd]
    /\ UNCHANGED <<song, ins, pc, call, ret, mix>>
    /\ UNCHANGED codecVars
    /\ UNCHANGED fileVars

\* The song, instructions and herd are as moo_prepare leaves them
InitOn ==
    /\ rd = [data |-> <<>>, cur |-> 0]
    /\ vres = NoResult
    /\ out = <<>>
    /\ written = <<>>
    /\ readback = <<>>
    /\ tv = NoTest
    /\ \E l \in OnLoads, plan \in OnPlans :
          LET r == moo_prepare(l.ins, l.herd, l.song, plan)
          IN  song = l.song /\ ins = r.ins /\ herd = r.herd
    /\ pc = "dispatch"
    /\ call = NoCall
    /\ ret = "none"
    /\ mix = NoMix
    /\ pass = [idx |-> -1, clock |-> 0, before |-> <<>>]
    /\ load = NoLoad

\* The tick the loop is at when an event is due: its own, or the next.
NextOnSpec ==
    \E late \in {0, 1} :
        DispatchEvent(Max(IF pass.idx >= 0 THEN pass.clock ELSE 0,
                          IF herd.evt_idx < Len(song.events)
                          THEN song.events[herd.evt_idx + 1].tick + late ELSE 0))

SpecOn == InitOn /\ [][NextOnSpec]_vars

-----------------------------------------------------------------------------
(* Claims on the On event *)

\* The event do_next_event has just run, and the unit it is for
OnEvent == song.events[pass.idx + 1]
\* An On event has just run with a positive on_count on a unit whose voice exists
OnStarted ==
    /\ pc = "dispatch"
    /\ pass.idx >= 0
    /\ OnEvent.kind = "On"
    /\ RTrunc(RMul(RInt(OnEvent.tick + (OnEvent.value - pass.clock)),
                   ins.samples_per_tick)) > 0
    /\ GetVoice(ins.voices, herd.units[OnEvent.unit + 1].voice_idx) # <<>>
\* The voice of that unit
OnVoice == ins.voices[herd.units[OnEvent.unit + 1].voice_idx + 1]
\* The ticks of the note that are left when the event runs
OnRemaining == OnEvent.value - (pass.clock - OnEvent.tick)
\* (a) the remaining duration in samples plus the release of slot i
OnLifeA(i) ==
    RTrunc(RAdd(RMul(RInt(OnRemaining), ins.samples_per_tick),
                RInt(OnVoice.insts[i].env_release)))
\* The On events of the unit after this one that lie in the release window of slot i
OnLater(i) ==
    { j \in (pass.idx + 2)..Len(song.events) :
        /\ song.events[j].kind = "On"
        /\ song.events[j].unit = OnEvent.unit
        /\ song.events[j].tick <= OnEvent.tick + OnEvent.value
                + pass.before.units[OnEvent.unit + 1].tones[i].env_release_clock }
\* (b) the samples to the first of them, or to smp_end if there is none
OnLifeB(i) ==
    IF OnLater(i) # {}
    THEN LET j == CHOOSE k \in OnLater(i) : \A m \in OnLater(i) : k <= m
         IN  RTrunc(RMul(RInt(song.events[j].tick - pass.clock), ins.samples_per_tick))
    ELSE pass.before.smp_end - RTrunc(RMul(RInt(pass.clock), ins.samples_per_tick))
\* The life_count the event left in slot i
OnLife(i) == herd.units[OnEvent.unit + 1].tones[i].life_count

\* C17 as stated: after an On event with a positive on_count the life_count
\* of every tone slot is the minimum of (a) and (b), whatever its
\* env_release, so no tone outlives the next On of its unit or smp_end.
C17_LifeIsMinimum ==
    OnStarted =>
        \A i \in 1..ZipInsts(OnVoice) : OnLife(i) = Min(OnLifeA(i), OnLifeB(i))

\* C17: after an On event with a positive on_count, a tone slot whose
\* instrument has a release (env_release # 0) gets the minimum of (a) and
\* (b) as its life_count; a slot without a release gets the remaining
\* duration in samples, whatever the next On of the unit or smp_end is.
C17_LifeByRelease ==
    OnStarted =>
        \A i \in 1..ZipInsts(OnVoice) :
            OnLife(i) = IF OnVoice.insts[i].env_release # 0
                        THEN Min(OnLifeA(i), OnLifeB(i))
                        ELSE RTrunc(RMul(RInt(OnRemaining), ins.samples_per_tick))

\* A slot with a release was cut short by the next On of its unit, which
\* came after an On of another unit.
C17_Witness ==
    /\ OnStarted
    /\ OnVoice.insts[1].env_release # 0
    /\ OnLater(1) # {}
    /\ OnLifeB(1) < OnLifeA(1)
    /\ OnLife(1) = OnLifeB(1)
    /\ \E j \in (pass.idx + 2)..Len(song.events) :
          /\ song.events[j].kind = "On"
          /\ song.events[j].unit # OnEvent.unit
          /\ \A k \in OnLater(1) : j < k

-----------------------------------------------------------------------------
(* SpecPan: a PanTime event is dispatched at some output sample rate *)

\* PanTime::RANGE
PanTimeRange == 0..127

\* The output sample rates a caller asks read_song for (SampleRate = u16)
PanRates == {1, 8000, 11025, 22050, NATIVE_SAMPLE_RATE, 48000, 65535}

\* What read_song returned for a song of one PanTime event on its one unit
PanLoads ==
    { LET sng == ReadSong(TimingSlow, 0, 0, <<Eve(0, 0, "PanTime", p)>>)
          mi == [Instructions(<<>>) EXCEPT !.out_sample_rate = r]
      IN  [song |-> sng, ins |-> mi, herd |-> ReadHerd(1, <<>>, <<>>, mi, sng.master)]
      : p \in PanTimeRange, r \in PanRates }

\* The song, instructions and herd are as moo_prepare leaves them
InitPan ==
    /\ rd = [data |-> <<>>, cur |-> 0]
    /\ vres = NoResult
    /\ out = <<>>
    /\ written = <<>>
    /\ readback = <<>>
    /\ tv = NoTest
    /\ \E l \in PanLoads :
          LET r == moo_prepare(l.ins, l.herd, l.song, Plan("Sample", 0, <<>>, <<>>, FALSE))
          IN  song = l.song /\ ins = r.ins /\ herd = r.herd
    /\ pc = "dispatch"
    /\ call = NoCall
    /\ ret = "none"
    /\ mix = NoMix
    /\ pass = [idx |-> -1, clock |-> 0, before |-> <<>>]
    /\ load = NoLoad

\* The first frame finds the event due at tick 0
NextPan == DispatchEvent(0)

SpecPan == InitPan /\ [][NextPan]_vars

\* C21: after a PanTime(p) event, for every p in 0..=127 and every non-zero
\* output sample rate, both pan_time_offs of the unit lie in [0, 63] and at
\* most one of them is non-zero: the left one for p >= 64, the right one
\* for p < 64.
C21_PanTimeOffsets ==
    (/\ pc = "dispatch"
     /\ pass.idx >= 0
     /\ song.events[pass.idx + 1].kind = "PanTime"
     /\ song.events[pass.idx + 1].value \in PanTimeRange
     /\ ins.out_sample_rate # 0) =>
        LET offs == herd.units[song.events[pass.idx + 1].unit + 1].pan_time_offs
            p == song.events[pass.idx + 1].value
        IN  /\ offs[1] \in 0..63
            /\ offs[2] \in 0..63
            /\ p >= 64 => offs[2] = 0
            /\ p < 64 => offs[1] = 0

-----------------------------------------------------------------------------
(* SpecSeek: a song is rendered, sought into, and prepared again *)

\* Most calls of seek_to_sample, and of moo_prepare after the first, in a run.
MaxSeeks == 1
MaxPrepares == 1

\* The events of the songs, in tick order: a Null event, and an event for
\* unit 3 of a herd that has one unit.
SeekScore ==
    << Eve(0, 0, "Volume", 64), Eve(1, 0, "Null", 0), Eve(1, 3, "Key", 100),
       Eve(2, 0, "Velocity", 64), Eve(3, 0, "Volume", 100) >>

\* What read_song returned: one unit, no voices, no effects
SeekLoads ==
    { LET sng == ReadSong(t, 0, 0, eves)
          mi == Instructions(<<>>)
      IN  [song |-> sng, ins |-> mi, herd |-> ReadHerd(1, <<>>, <<>>, mi, sng.master)]
      : t \in {TimingSlow, TimingFast}, eves \in SubSeqs(SeekScore, MaxEvents) \ {<<>>} }

SeekPlans ==
    { Plan("Sample", 0, <<>>, <<>>, FALSE), Plan("Sample", 0, <<>>, <<>>, TRUE),
      Plan("Meas", 1, <<>>, <<>>, FALSE) }

\* The samples a caller seeks to
SeekSamples == {0, 3, 6}

\* What the run has done besides rendering
NoTrail == [stage |-> "play", seeks |-> 0, prepares |-> 0, after_end |-> FALSE]

\* herd.seek_to_sample(s), between two calls of Herd::moo
SeekToSample(s) ==
    /\ pc = "idle"
    /\ load.seeks < MaxSeeks
    /\ herd' = [herd EXCEPT !.smp_count = s, !.evt_idx = 0]
    /\ pass' = [pass EXCEPT !.log = <<>>, !.last_smp = -1]
    /\ load' = [load EXCEPT !.seeks = @ + 1]
    /\ UNCHANGED <<song, ins, pc, call, ret, mix>>
    /\ UNCHANGED codecVars

\* moo_prepare(&mut ins, &mut herd, &song, &plan) on a herd that has
\* been rendered; after_end: the last call of Herd::moo returned false
MooPrepareAgain(plan) ==
    /\ pc = "idle"
    /\ load.prepares < MaxPrepares
    /\ LET r == moo_prepare(ins, herd, song, plan)
       IN  ins' = r.ins /\ herd' = r.herd
    /\ call' = NoCall
    /\ ret' = "none"
    /\ mix' = NoMix
    /\ pass' = NoPass
    /\ load' = [load EXCEPT !.prepares = @ + 1, !.after_end = (ret = "false")]
    /\ UNCHANGED <<song, pc>>
    /\ UNCHANGED codecVars

InitSeek ==
    /\ rd = [data |-> <<>>, cur |-> 0]
    /\ vres = NoResult
    /\ out = <<>>
    /\ written = <<>>
    /\ readback = <<>>
    /\ tv = NoTest
    /\ \E ld \in SeekLoads : song = ld.song /\ ins = ld.ins /\ herd = ld.herd
    /\ pc = "loaded"
    /\ call = NoCall
    /\ ret = "none"
    /\ mix = NoMix
    /\ pass = NoPass
    /\ load = NoTrail

NextSeek ==
    \/ \E plan \in SeekPlans : MooPrepare(plan)
    \/ \E n \in BufLens :
          /\ herd.end \/ pass.frames + n <= MaxFrames
          /\ MooCall(n, TRUE)
    \/ MooFrame
    \/ \E s \in SeekSamples : SeekToSample(s)
    \/ \E plan \in SeekPlans : MooPrepareAgain(plan)

SpecSeek == InitSeek /\ [][NextSeek]_vars

-----------------------------------------------------------------------------
(* Claims on the event cursor *)

\* The song has no Null event
NoNull == \A k \in 1..Len(song.events) : song.events[k].kind # "Null"

\* C22: reaching a Null event ends the event processing of the song: the
\* drain stops at the Null, evt_idx never advances past it, and no event
\* after it is dispatched on that frame or on a later frame of the pass.
C22_NullStops ==
    \A k \in 1..Len(song.events) :
        song.events[k].kind = "Null" =>
            /\ herd.evt_idx <= k - 1
            /\ \A i \in 1..Len(pass.log) : pass.log[i].idx < k - 1

\* The cursor has been at a Null event for several frames, and the tick of
\* an event after it has been reached.
C22_Witness ==
    /\ Prepared
    /\ pass.frames >= 4
    /\ pass.last_smp >= 0
    /\ herd.evt_idx >= 1
    /\ herd.evt_idx + 1 < Len(song.events)
    /\ song.events[herd.evt_idx + 1].kind = "Null"
    /\ EveTick(herd.evt_idx + 1) < TickAt(pass.last_smp)
    /\ Len(pass.log) = herd.evt_idx

\* C25: an event for a unit that does not exist is a local fault: it is
\* skipped, and every later event of the list is still dispatched when its
\* tick is reached (the cursor is past every event whose tick the last
\* frame has reached).
C25_BadUnitSkipped ==
    (/\ Prepared
     /\ NoNull
     /\ \E k \in 1..Len(song.events) : song.events[k].unit >= Len(herd.units)
     /\ pass.last_smp >= 0) =>
        \A i \in 0..(Len(song.events) - 1) :
            EveTick(i) <= TickAt(pass.last_smp) => i < herd.evt_idx

\* C26: after seek_to_sample, moo_prepare or a loop rewind (evt_idx = 0 and
\* nothing dispatched yet), the next frame rendered with advance = true
\* dispatches in list order every event whose tick is at or before the
\* tick of the frame and leaves evt_idx at the first event with a later
\* tick, for a tick-sorted list without Null events.
C26_CursorRecovery ==
    [][(/\ pc = "moo" /\ pc' # "panic"
        /\ call.advance
        /\ herd.evt_idx = 0 /\ pass.last_smp = -1
        /\ NoNull
        /\ herd.smp_count + 1 < herd.smp_end)
       => (/\ \A i \in 0..(Len(song.events) - 1) :
                 i < herd'.evt_idx <=> EveTick(i) <= TickAt(herd.smp_count)
           /\ pass'.log = [k \in 1..herd'.evt_idx |->
                             [idx |-> k - 1, smp |-> herd.smp_count, prev |-> -1]])]_vars

\* C29: moo_prepare re-arms playback: when a call of Herd::moo has returned
\* false and moo_prepare is called, the ended flag is cleared together with
\* smp_count, evt_idx and time_pan_index, and the next call of Herd::moo
\* renders from smp_start and returns true.
C29_PrepareRearms ==
    (load.stage = "play" /\ load.after_end /\ pc = "idle" /\ load.seeks = 0) =>
        /\ ret = "none" =>
              /\ ~herd.end
              /\ herd.smp_count = herd.smp_start
              /\ herd.evt_idx = 0
              /\ herd.time_pan_index = 0
        /\ ret # "none" => pass.frames > 0
        /\ (ret # "none" /\ pass.frames <= call.buflen) => ret = "true"

-----------------------------------------------------------------------------
(* SpecPorta: a unit slides to a key *)

\* The durations of the slides in ticks, and the keys they go to
PortaTicks == {1, 2, 3}
PortaKeys == {DEFAULT_KEY + 8, DEFAULT_KEY + 5, DEFAULT_KEY - 7, DEFAULT_KEY - 256}

\* What read_song returned: a Portament event, a Key event at the same
\* tick or the next, and a late event that makes the song four measures
\* long; one unit, no voices.
PortaLoads ==
    { LET sng == ReadSong(t, 0, 0, << Eve(0, 0, "Portament", d), Eve(at, 0, "Key", k),
                                     Eve(7 * t.ticks_per_beat, 0, "Volume", 64) >>)
          mi == Instructions(<<>>)
      IN  [song |-> sng, ins |-> mi, herd |-> ReadHerd(1, <<>>, <<>>, mi, sng.master)]
      : t \in {TimingSlow, TimingFast}, d \in PortaTicks, k \in PortaKeys, at \in {0, 1} }

InitPorta ==
    /\ rd = [data |-> <<>>, cur |-> 0]
    /\ vres = NoResult
    /\ out = <<>>
    /\ written = <<>>
    /\ readback = <<>>
    /\ tv = NoTest
    /\ \E ld \in PortaLoads : song = ld.song /\ ins = ld.ins /\ herd = ld.herd
    /\ pc = "loaded"
    /\ call = NoCall
    /\ ret = "none"
    /\ mix = NoMix
    /\ pass = NoPass
    /\ load = NoLoad

NextPorta ==
    \/ MooPrepare(Plan("Sample", 0, <<>>, <<>>, FALSE))
    \/ \E n \in BufLens :
          /\ herd.end \/ pass.frames + n <= MaxFrames
          /\ MooCall(n, TRUE)
    \/ MooFrame

SpecPorta == InitPorta /\ [][NextPorta]_vars

\* The Portament and the Key event of the song have been dispatched; the
\* frames rendered since the Key event, its frame included; the length of
\* the slide in samples; the target key
PortaSliding == Prepared /\ Len(pass.log) >= 2
PortaFrames == herd.smp_count - pass.log[2].smp
PortaLen == tick_to_sample(song.events[1].value, ins.samples_per_tick)
PortaTarget == song.events[2].value

\* C24: portamento is a linear slide: after Portament{d} and Key(k) with no
\* On in between, with D = d * samples_per_tick > 0, key_now after n frames
\* (0 < n <= D) is trunc(key_start + key_margin * n / D), which is the
\* midpoint key_start + key_margin / 2 at n = D / 2; on the frame after
\* porta_pos reaches D the unit settles at key_now = key_start = k with
\* key_margin = 0.
C24_LinearSlide ==
    (PortaSliding /\ PortaLen > 0) =>
        LET u == herd.units[1]
            n == PortaFrames
            D == PortaLen
            margin == PortaTarget - DEFAULT_KEY
        IN  /\ (n >= 1 /\ n <= D) =>
                  /\ u.key_start = DEFAULT_KEY
                  /\ u.key_margin = margin
                  /\ u.porta_pos = n
                  /\ u.key_now = RTrunc(RAdd(RInt(DEFAULT_KEY), Rat(margin * n, D)))
            /\ (n >= 1 /\ 2 * n = D /\ margin % 2 = 0) =>
                  u.key_now = DEFAULT_KEY + margin \div 2
            /\ n > D =>
                  /\ u.key_now = PortaTarget
                  /\ u.key_start = PortaTarget
                  /\ u.key_margin = 0

\* A slide of six samples to a key 256 below is half way, and another has
\* settled on its key.
C24_Witness ==
    /\ PortaSliding
    /\ \/ /\ PortaLen = 6 /\ PortaFrames = 3
          /\ PortaTarget = DEFAULT_KEY - 256
          /\ herd.units[1].key_now = DEFAULT_KEY - 128
       \/ /\ PortaLen = 4 /\ PortaFrames = 5
          /\ PortaTarget = DEFAULT_KEY + 5
          /\ herd.units[1].key_now = DEFAULT_KEY + 5
          /\ herd.units[1].key_margin = 0

-----------------------------------------------------------------------------
(* SpecTone: the notes of one unit are started, changed and paused *)

\* A one-channel wave that does not loop, with an envelope of one sample
\* whose last point is at x = 0 (recalc_envelope gives env_release = 0).
VoiceSnap ==
    [units |-> <<[basic_key |-> DEFAULT_BASICKEY, tuning |-> RInt(1), flags |-> {}]>>,
     insts |-> <<[num_samples |-> 3, sample_buf |-> <<32767, -32768, 1000, 1000, 7, 7>>,
                  env |-> <<128>>, env_release |-> 0]>>]

\* The events of the songs, in tick order: the unit takes voice v, plays a
\* note of two ticks, goes to the voice with one instrument during the
\* note and to the voice without release after it, and plays again.
ToneScore(v) ==
    << Eve(0, 0, "SetVoice", v), Eve(0, 0, "On", 2), Eve(1, 0, "SetVoice", 0),
       Eve(2, 0, "SetVoice", 2), Eve(3, 0, "On", 1) >>

\* What read_song returned: one unit and three voices
ToneLoads ==
    { LET sng == ReadSong(t, 0, 0, eves)
          mi == Instructions(<<VoiceEnv, VoiceLoud, VoiceSnap>>)
      IN  [song |-> sng, ins |-> mi, herd |-> ReadHerd(1, <<>>, <<>>, mi, sng.master)]
      : t \in {TimingSlow, TimingFast},
        eves \in UNION { SubSeqs(ToneScore(v), MaxEvents) \ {<<>>} : v \in {1, 2} } }

\* From the start without and with loop, and from the second measure
TonePlans ==
    { Plan("Sample", 0, <<>>, <<>>, FALSE), Plan("Sample", 0, <<>>, <<>>, TRUE),
      Plan("Meas", 1, <<>>, <<>>, TRUE) }

InitTone ==
    /\ rd = [data |-> <<>>, cur |-> 0]
    /\ vres = NoResult
    /\ out = <<>>
    /\ written = <<>>
    /\ readback = <<>>
    /\ tv = NoTest
    /\ \E ld \in ToneLoads : song = ld.song /\ ins = ld.ins /\ herd = ld.herd
    /\ pc = "loaded"
    /\ call = NoCall
    /\ ret = "none"
    /\ mix = NoMix
    /\ pass = NoPass
    /\ load = NoLoad

\* A run has at most one call with advance = false
NextTone ==
    \/ \E plan \in TonePlans : MooPrepare(plan)
    \/ \E n \in BufLens, advance \in BOOLEAN :
          /\ advance \/ ~pass.paused
          /\ herd.end \/ pass.frames + n <= MaxFrames
          /\ MooCall(n, advance)
    \/ MooFrame

SpecTone == InitTone /\ [][NextTone]_vars

-----------------------------------------------------------------------------
(* Claims on tones *)

\* The voice of unit u, and the tone slots that Unit::tone_increment_sample
\* pairs with an instrument of it
ToneVoice(u) == GetVoice(ins.voices, herd.units[u].voice_idx)
TonePaired(u) == IF ToneVoice(u) = <<>> THEN {} ELSE 1..ZipUnits(ToneVoice(u)[1])

\* A frame is being rendered that ends neither the song nor a loop
FrameInside ==
    /\ pc = "moo" /\ pc' # "panic"
    /\ herd.smp_count + (IF call.advance THEN 1 ELSE 0) < herd.smp_end

\* What a paused frame leaves alone, and what it goes on doing: the tones
\* of the unit's voice lose a sample of life, and the frame is the clamped
\* sum of what the units have just sampled.
PauseKeeps ==
    /\ herd'.smp_count = herd.smp_count
    /\ herd'.evt_idx = herd.evt_idx
    /\ pass'.log = pass.log
PauseGoesOn ==
    /\ herd'.time_pan_index = (herd.time_pan_index + 1) % PanTimeBufLen
    /\ \A u \in 1..Len(herd.units) : \A i \in TonePaired(u) :
          LET t0 == herd.units[u].tones[i]
              t1 == herd'.units[u].tones[i]
          IN  t0.life_count > 0 =>
                 /\ t1.life_count < t0.life_count
                 /\ t1.life_count > 0 => t1.on_count = t0.on_count - 1
    /\ \A c \in 1..MAX_CHANNEL :
          mix'.out[c] = Clamp(herd'.units[1].pan_time_bufs[c][herd.time_pan_index + 1],
                              I16_MIN, I16_MAX)

\* C23 as stated: a frame rendered with advance = false dispatches no
\* event and leaves smp_count and evt_idx unchanged, while the tones still
\* advance and the frame is still mixed.
C23_PauseAlways ==
    [][(pc = "moo" /\ pc' # "panic" /\ ~call.advance) => (PauseKeeps /\ PauseGoesOn)]_vars

\* C23: a frame rendered with advance = false at a sample count below
\* smp_end dispatches no event and leaves smp_count and evt_idx unchanged,
\* while the tones still advance and the frame is still mixed; at a sample
\* count of smp_end or more the frame still ends the song or rewinds the
\* loop: smp_count = smp_repeat, evt_idx = 0.
C23_PauseInside ==
    [][(pc = "moo" /\ pc' # "panic" /\ ~call.advance) =>
          /\ herd.smp_count < herd.smp_end => (PauseKeeps /\ PauseGoesOn)
          /\ (herd.smp_count >= herd.smp_end /\ herd.loop_) =>
                (herd'.smp_count = herd.smp_repeat /\ herd'.evt_idx = 0 /\ ~herd'.end)
          /\ (herd.smp_count >= herd.smp_end /\ ~herd.loop_) =>
                (herd'.smp_count = herd.smp_count /\ herd'.end)]_vars

\* A paused call has rendered a frame that sounds, of a note with a
\* sample of life less than it was started with.
C23_Witness ==
    /\ Prepared
    /\ pass.paused /\ ~call.advance /\ call.written > 0
    /\ herd.smp_count < herd.smp_end
    /\ mix # NoMix /\ mix.out[1] # 0
    /\ herd.units[1].tones[1].life_count > 0
    /\ herd.units[1].tones[1].on_count > 0
    /\ herd.evt_idx > 0


\* The frame dispatched no event
NoDispatch == pass'.log = pass.log

\* What Unit::tone_increment_sample does to the tone t0 of a slot whose
\* instrument has the envelope env, t1 being the tone after the frame:
\* life_count goes down by one, or to 0 when a wave that does not loop has
\* run out; on_count goes down by one if the tone is alive after the
\* decrement; the release starts on the frame on which on_count becomes 0.
ToneAged(t0, t1, env) ==
    /\ t0.life_count > 0 =>
          /\ t1.life_count = t0.life_count - 1 \/ t1.life_count = 0
          /\ t0.life_count - 1 > 0 =>
                /\ t1.on_count = t0.on_count - 1
                /\ (t1.on_count = 0 /\ env # <<>>) =>
                      (t1.env_start = t1.env_volume /\ t1.env_pos = 0)
    /\ t0.life_count <= 0 => t1.life_count = t0.life_count

C30_ReleaseNonZero ==
    /\ pc # "panic"
    /\ \A u \in 1..Len(herd.units) :
          ToneVoice(u) # <<>> =>
             \A i \in 1..ZipInsts(ToneVoice(u)[1]) :
                LET t == herd.units[u].tones[i]
                    inst == ToneVoice(u)[1].insts[i]
                IN  /\ (t.life_count > 0 /\ t.on_count <= 0 /\ inst.env # <<>>) =>
                          inst.env_release # 0
                    /\ (inst.env_release = 0 /\ t.life_count > 0) => t.on_count > 0

\* A note of a voice with an envelope and no release is in its last sample
\* of life after the unit came from a voice whose note was in its release.
C30_Witness ==
    /\ Prepared
    /\ herd.units[1].voice_idx = 2
    /\ herd.units[1].tones[1].life_count = 1
    /\ herd.units[1].tones[1].on_count = 1
    /\ \E k \in 1..Len(pass.log) : song.events[pass.log[k].idx + 1].kind = "SetVoice"

-----------------------------------------------------------------------------
(* The cursor of a delay *)

\* The buffers of delay d are of one length, at most MAX_BUF_LEN, and its
\* offset is an index into them, or 0 when they are empty
CursorValid(d) ==
    LET L == Len(d.bufs[1])
    IN  /\ Len(d.bufs[2]) = L
        /\ L <= MAX_BUF_LEN
        /\ IF L > 0 THEN d.offset < L ELSE d.offset = 0

\* A frame was mixed in this step
FxFrameStep == pc = "effects" /\ pass'.frames = pass.frames + 1

\* What the frame of this step did to the first delay: with buffers of
\* length L > 0 the offset moved on by one modulo L; with none, where
\* tone_supple finds no sample at the offset, the offset is 0 and the
\* accumulators left the delay as they entered it
CursorStep ==
    LET d == herd.delays[1]
        L == Len(d.bufs[1])
        e == pass'.log[Len(pass'.log)]
    IN  /\ L > 0 => herd'.delays[1].offset = (d.offset + 1) % L
        /\ L = 0 => /\ herd'.delays[1].offset = 0
                    /\ e.out = e.od
        /\ Len(herd'.delays[1].bufs[1]) = L

\* C28: in every state reached from a herd as read_song leaves it by
\* rebuild_tones, Delay::rebuild and mixing frames, the two buffers of each
\* delay have one length L <= 2^24 and the offset is below L, or 0 when
\* L = 0; a frame moves the offset to (offset + 1) mod L, and where the
\* offset is no index into the buffers it is set to 0 and the group is
\* left as it was.
C28_DelayCursor ==
    /\ [](pc = "effects" => \A i \in 1..Len(herd.delays) : CursorValid(herd.delays[i]))
    /\ [][FxFrameStep => CursorStep]_vars

\* A delay that was rebuilt to buffers of two frames, after frames had been
\* mixed, and whose offset has since gone from 1 back to 0.
C28_Witness ==
    /\ pc = "effects"
    /\ pass.rebuilds = 1
    /\ pass.frames >= 3
    /\ Len(herd.delays[1].bufs[1]) = 2
    /\ Len(pass.log) = 2
    /\ pass.log[2].offset = 1
    /\ herd.delays[1].offset = 0

=============================================================================
